---------------------------- MODULE Spec2Model ----------------------------
(***************************************************************************)
(* A model of git-imerge's pairwise-merge engine (src/gitimerge.py):       *)
(* the merge grid with its MergeRecords, its persistence as git refs, the  *)
(* three merge frontiers (Blockwise, Full, Manual), outlining with         *)
(* backtracking, and the incorporation of user merges.                     *)
(*                                                                         *)
(* git itself is modelled by values: a commit is a record of its parents,  *)
(* its tree and its author; `git merge` is a deterministic function of the *)
(* two commits merged, drawn at initialization (conflicts, oddTrees).      *)
(***************************************************************************)
EXTENDS Integers, Sequences, FiniteSets, TLC

(* ------------------------------ bounds --------------------------------- *)

\* largest len1 = len(commits1) + 1 and len2 = len(commits2) + 1 explored
MaxLen1 == 4
MaxLen2 == 3
\* largest number of micromerges (len1 - 1) * (len2 - 1) explored
MaxArea == 4
\* at most this many pairs of commits whose automatic merge conflicts
MaxConflicts == 2
\* at most this many vertex merges whose first way gives a different tree
MaxOddTrees == 1
\* at most this many merges the user makes on their own (not the one prepared)
MaxOwnMerges == 1

(* ------------------------------ commits -------------------------------- *)

\* sha1 = None
NoCommit == [parents |-> <<>>, tree |-> <<>>, by |-> "none"]

\* the commits found by get_boundaries: the merge base at <<0,0>>, the
\* commits of tip1 at <<i1,0>>, the commits of tip2 at <<0,i2>>
OrigCommit(i1, i2) == [parents |-> <<>>, tree |-> <<i1, i2, 0>>, by |-> "orig"]

\* the grid position whose content a commit carries
CellOf(c) == <<c.tree[1], c.tree[2]>>

Max(a, b) == IF a >= b THEN a ELSE b
Min(a, b) == IF a <= b THEN a ELSE b

(* --------------------------- MergeRecord ------------------------------- *)

SAVED_AUTO == "SAVED_AUTO"
NEW_AUTO == "NEW_AUTO"
SAVED_MANUAL == "SAVED_MANUAL"
NEW_MANUAL == "NEW_MANUAL"
BLOCKED == "BLOCKED"

SAVED == {SAVED_AUTO, SAVED_MANUAL}
\* NEW is a reserved word of TLA+
NEW_ == {NEW_AUTO, NEW_MANUAL}
AUTO == {SAVED_AUTO, NEW_AUTO}
MANUAL == {SAVED_MANUAL, NEW_MANUAL}
AllFlags == {SAVED_AUTO, NEW_AUTO, SAVED_MANUAL, NEW_MANUAL, BLOCKED}

\* MergeRecord(): sha1=None, flags=0
EmptyRecord == [sha1 |-> NoCommit, flags |-> {}]

record_merge(rec, sha1, source) ==
    CASE source = SAVED_AUTO ->
           [sha1 |-> IF rec.flags \cap (MANUAL \cup NEW_) = {} THEN sha1 ELSE rec.sha1,
            flags |-> rec.flags \cup {source}]
      [] source = NEW_AUTO ->
           IF rec.flags \cap MANUAL = {}
           THEN [sha1 |-> sha1, flags |-> rec.flags \cup {source}]
           ELSE rec
      [] source = SAVED_MANUAL ->
           [sha1 |-> IF NEW_MANUAL \notin rec.flags THEN sha1 ELSE rec.sha1,
            flags |-> rec.flags \cup {source}]
      [] source = NEW_MANUAL ->
           [sha1 |-> sha1, flags |-> (rec.flags \cup {source}) \ {NEW_AUTO}]

\* record_blocked that also notes that an automatic merge was attempted
record_blocked_noting_attempt(rec, blocked) ==
    IF blocked THEN [rec EXCEPT !.flags = @ \cup {BLOCKED, NEW_AUTO}]
    ELSE [rec EXCEPT !.flags = @ \ {BLOCKED}]

record_blocked(rec, blocked) ==
    IF blocked THEN [rec EXCEPT !.flags = @ \cup {BLOCKED}]
    ELSE [rec EXCEPT !.flags = @ \ {BLOCKED}]

is_known(rec) == rec.sha1 # NoCommit
is_blocked(rec) == BLOCKED \in rec.flags
is_manual(rec) == rec.flags \cap MANUAL # {}

(* ------------------------------- state --------------------------------- *)

VARIABLES
    len1, len2,     \* Block.len1, Block.len2 of the MergeState
    conflicts,      \* git: the pairs <<cell, cell>> of commits whose merge conflicts
    oddTrees,       \* git: the cells whose "first way" vertex merge gives another tree
    refs,           \* refs/imerge/NAME/{auto,manual}/I1-I2 -> commit
    blob,           \* the JSON blob at refs/imerge/NAME/state
    scratch,        \* refs/heads/imerge/NAME
    head,           \* HEAD: "branch", "scratch" or "detached"
    mergeHead,      \* MERGE_HEAD of a merge in progress
    worktree,       \* "clean", "conflicted" (unstaged changes) or "staged"
    M,              \* MergeState._data of the last command that ran
    goal, manual,   \* MergeState.goal, MergeState.manual of that command
    outcome,        \* how the last command ended
    cause,          \* per cell: the automerge whose failure flagged it BLOCKED
    outlines,       \* the auto_outline calls of the last command
    saves,          \* the saves of the last command, each with what read gives back
    ownMerges,      \* number of merges the user made on their own
    loop,           \* initiate_merge: the locals of a call that is under way
    target,         \* refs/heads/BRANCH, the branch that simplify writes
    simplifies,     \* number of simplify and finish commands run
    refnames,       \* the refs of a repository that holds several incremental merges
    call            \* a function called on its own: its arguments and what it returned

vars == <<len1, len2, conflicts, oddTrees, refs, blob, scratch, head, mergeHead,
          worktree, M, goal, manual, outcome, cause, outlines, saves,
          ownMerges, loop, target, simplifies, refnames, call>>

Cells(l1, l2) == (0 .. l1 - 1) \X (0 .. l2 - 1)

\* the pairs of grid positions whose commits the algorithms ever merge:
\* <<t1, x2>> with <<y1, t2>> to fill <<t1, t2>>, for y1 < t1 and x2 < t2
MergeKeys(l1, l2) ==
    {<<<<t1, x2>>, <<y1, t2>>>> :
        <<t1, x2, y1, t2>> \in {q \in (1 .. l1 - 1) \X (0 .. l2 - 1) \X (0 .. l1 - 1) \X (1 .. l2 - 1) :
                                  q[3] < q[1] /\ q[2] < q[4]}}

\* those of them that a micromerge makes: <<t1, t2 - 1>> with <<t1 - 1, t2>>
MicroKeys(l1, l2) ==
    {k \in MergeKeys(l1, l2) : k[1][2] = k[2][2] - 1 /\ k[2][1] = k[1][1] - 1}

VertexCells(l1, l2) == {c \in Cells(l1, l2) : c[1] >= 2 /\ c[2] >= 2}

(* -------------------------------- git ---------------------------------- *)

\* GitRepository.automerge: checkout commit1, merge commit2; the new commit
\* has parents [commit1, commit2].  ok = FALSE stands for AutomaticMergeFailed.
\* automerge with the parents of the new commit in the other order
automerge_swapped(commit1, commit2) ==
    LET X == CellOf(commit1)
        Y == CellOf(commit2)
        t1 == Max(X[1], Y[1])
        t2 == Max(X[2], Y[2])
        v == IF <<t1, t2>> \in oddTrees /\ Y[1] = t1 - 1 /\ X[2] < t2 - 1 THEN 1 ELSE 0
    IN  [ok |-> <<X, Y>> \notin conflicts,
         commit |-> [parents |-> <<commit2, commit1>>, tree |-> <<t1, t2, v>>, by |-> "auto"]]

automerge(commit1, commit2) ==
    LET X == CellOf(commit1)
        Y == CellOf(commit2)
        t1 == Max(X[1], Y[1])
        t2 == Max(X[2], Y[2])
        v == IF <<t1, t2>> \in oddTrees /\ Y[1] = t1 - 1 /\ X[2] < t2 - 1 THEN 1 ELSE 0
    IN  [ok |-> <<X, Y>> \notin conflicts,
         commit |-> [parents |-> <<commit1, commit2>>, tree |-> <<t1, t2, v>>, by |-> "auto"]]

get_tree(commit) == commit.tree
get_commit_parents(commit) == commit.parents

\* reparent leaving the parents as they are
reparent_kept(commit, parent_sha1s) == commit

\* GitRepository.reparent: same tree and author, new parents
reparent(commit, parent_sha1s) == [commit EXCEPT !.parents = parent_sha1s]

(* ------------------------------- Block --------------------------------- *)

\* A Block or SubBlock is its view of the MergeState: _start1, _start2, len1, len2.
RootBlock(l1, l2) == [s1 |-> 0, s2 |-> 0, len1 |-> l1, len2 |-> l2]

\* SubBlock(block, slice(a1, b1), slice(a2, b2)), slice.indices() clamping included
Slice(block, a1, b1, a2, b2) ==
    LET st1 == Min(a1, block.len1)
        st2 == Min(a2, block.len2)
    IN  [s1 |-> block.s1 + st1, s2 |-> block.s2 + st2,
         len1 |-> Min(b1, block.len1) - st1, len2 |-> Min(b2, block.len2) - st2]

\* the neighbours of the cell c: (i1, i2 - 1), "above", and (i1 - 1, i2), "left"
AboveOf(c) == <<c[1], c[2] - 1>>
LeftOf(c) == <<c[1] - 1, c[2]>>

get_original_indexes(block, i1, i2) == <<block.s1 + i1, block.s2 + i2>>

\* SubBlock.convert_original_indexes; <<-1, -1>> stands for IndexError
convert_original_indexes(block, i1, i2) ==
    IF /\ block.s1 <= i1 /\ i1 < block.s1 + block.len1
       /\ block.s2 <= i2 /\ i2 < block.s2 + block.len2
    THEN <<i1 - block.s1, i2 - block.s2>>
    ELSE <<-1, -1>>

get_value(grid, block, i1, i2) == grid[get_original_indexes(block, i1, i2)]

\* (i1, i2) in block
contains(grid, block, i1, i2) == is_known(get_value(grid, block, i1, i2))

Block_is_blocked(grid, block, i1, i2) == is_blocked(get_value(grid, block, i1, i2))

get_area(block) == (block.len1 - 1) * (block.len2 - 1)

\* is_mergeable that answers from the records alone, without trying the merge
is_mergeable_untried(grid, block, i1, i2) == contains(grid, block, i1, i2)

is_mergeable(grid, block, i1, i2) ==
    IF contains(grid, block, i1, i2) THEN TRUE
    ELSE automerge(get_value(grid, block, i1, 0).sha1, get_value(grid, block, 0, i2).sha1).ok

\* The algorithms thread the grid and what is observed about them:
\*   grid: the MergeRecords; why: the cause of each BLOCKED flag;
\*   calls: the auto_outline calls made; saves: the saves made (see
\*   MergeState_save); err: a Python exception that no
\*   caller catches ("" if none); touched: whether git automerge ran (it
\*   checks out commit1, which leaves HEAD detached)
Touched(st, b) == [st EXCEPT !.touched = @ \/ b]

SetRecord(st, cell, rec) == [st EXCEPT !.grid[cell] = rec]

\* SetBlocked without record_blocked(True): the failed merge is noted, the
\* cell is not flagged
SetBlocked_unflagged(st, cell, pair) ==
    [st EXCEPT !.why[cell] = [pair |-> pair,
                              held |-> <<st.grid[AboveOf(cell)].sha1,
                                         st.grid[LeftOf(cell)].sha1>>]]

\* record_blocked(True) at cell after the automerge of pair failed; why[cell]
\* keeps the pair together with the commits the two neighbours hold now
SetBlocked(st, cell, pair) ==
    [st EXCEPT !.grid[cell] = record_blocked(@, TRUE),
               !.why[cell] = [pair |-> pair,
                              held |-> <<st.grid[AboveOf(cell)].sha1,
                                         st.grid[LeftOf(cell)].sha1>>]]

\* a bisection that drops the index it found false
RECURSIVE find_first_false_dropping_mid(_, _, _)
find_first_false_dropping_mid(f, lo, hi) ==
    IF lo < hi
    THEN LET mid == (lo + hi) \div 2
         IN  IF f[mid] THEN find_first_false_dropping_mid(f, mid + 1, hi)
             ELSE find_first_false_dropping_mid(f, lo, mid - 1)
    ELSE lo

RECURSIVE find_first_false(_, _, _)
find_first_false(f, lo, hi) ==
    IF lo < hi
    THEN LET mid == (lo + hi) \div 2
         IN  IF f[mid] THEN find_first_false(f, mid + 1, hi)
             ELSE find_first_false(f, lo, mid)
    ELSE lo

\* the loop of find_frontier_blocks taking the next column for the width of
\* a block instead of searching for it
RECURSIVE ffb_loop_next_column(_, _, _, _)
ffb_loop_next_column(grid, block, i1, i2) ==
    IF i2 = 1 THEN <<>>
    ELSE IF i1 = block.len1 - 1 \/ is_mergeable(grid, block, block.len1 - 1, i2 - 1)
    THEN <<Slice(block, 0, block.len1, 0, i2)>>
    ELSE LET i1n == i1 + 1
         IN  <<Slice(block, 0, i1n, 0, i2)>> \o
             (IF i2 - 1 = 1 \/ ~is_mergeable(grid, block, i1n, 1) THEN <<>>
              ELSE ffb_loop_next_column(grid, block, i1n,
                            find_first_false(
                                [i \in 0 .. block.len2 - 1 |-> is_mergeable(grid, block, i1n, i)],
                                2, i2 - 1)))

\* the while loop of find_frontier_blocks, entered with (i1, i2)
RECURSIVE ffb_loop(_, _, _, _)
ffb_loop(grid, block, i1, i2) ==
    IF i2 = 1 THEN <<>>
    ELSE IF i1 = block.len1 - 1 \/ is_mergeable(grid, block, block.len1 - 1, i2 - 1)
    THEN <<Slice(block, 0, block.len1, 0, i2)>>
    ELSE LET i1n == find_first_false(
                        [i \in 0 .. block.len1 - 1 |-> is_mergeable(grid, block, i, i2 - 1)],
                        i1 + 1, block.len1 - 1)
         IN  <<Slice(block, 0, i1n, 0, i2)>> \o
             (IF i2 - 1 = 1 \/ ~is_mergeable(grid, block, i1n, 1) THEN <<>>
              ELSE ffb_loop(grid, block, i1n,
                            find_first_false(
                                [i \in 0 .. block.len2 - 1 |-> is_mergeable(grid, block, i1n, i)],
                                2, i2 - 1)))

\* find_frontier_blocks: the blocks yielded, and the state with block[1,1]
\* flagged BLOCKED when nothing in block is mergeable
find_frontier_blocks(st, block) ==
    IF block.len1 <= 1 \/ block.len2 <= 1 \/ Block_is_blocked(st.grid, block, 1, 1)
    THEN [st |-> st, blocks |-> <<>>]
    ELSE IF is_mergeable(st.grid, block, block.len1 - 1, block.len2 - 1)
    THEN [st |-> Touched(st, ~contains(st.grid, block, block.len1 - 1, block.len2 - 1)),
          blocks |-> <<block>>]
    ELSE IF ~is_mergeable(st.grid, block, 1, 1)
    THEN [st |-> SetBlocked(Touched(st, TRUE), get_original_indexes(block, 1, 1),
                            <<get_value(st.grid, block, 1, 0).sha1,
                              get_value(st.grid, block, 0, 1).sha1>>),
          blocks |-> <<>>]
    ELSE [st |-> Touched(st, TRUE),
          blocks |-> ffb_loop(st.grid, block, 1,
                              find_first_false(
                                  [i \in 0 .. block.len2 - 1 |-> is_mergeable(st.grid, block, 1, i)],
                                  2, block.len2))]

(* ----------------------------- outlining ------------------------------- *)

\* do_merge of auto_outline: the commit already at (i1, i2), or the automerge
\* of commit1 and commit2
do_merge(grid, block, i1, commit1, i2, commit2) ==
    LET merged(r) == [ok |-> r.ok, commit |-> r.commit, tried |-> TRUE]
    IN  IF contains(grid, block, i1, i2)
        THEN [ok |-> TRUE, commit |-> get_value(grid, block, i1, i2).sha1, tried |-> FALSE]
        ELSE merged(automerge(commit1, commit2))

\* one do_merge(..., record=True) added to what auto_outline has done so far:
\* acc.merges is the list `merges`, acc.n the number of automerges attempted,
\* acc.at and acc.pair the UnexpectedMergeFailure when acc.ok is FALSE
OutlineMerge(grid, block, acc, i1, commit1, i2, commit2) ==
    LET add(r) ==
            [ok |-> r.ok,
             merges |-> IF r.ok /\ r.tried THEN Append(acc.merges, <<i1, i2, r.commit>>)
                        ELSE acc.merges,
             n |-> acc.n + (IF r.tried THEN 1 ELSE 0),
             at |-> <<i1, i2>>,
             pair |-> <<commit1, commit2>>,
             last |-> r.commit]
    IN  add(do_merge(grid, block, i1, commit1, i2, commit2))

\* the loop over the bottom edge: left = do_merge(i1, self[i1, 0].sha1, i2, left)
RECURSIVE outline_bottom(_, _, _, _)
outline_bottom(grid, block, i1, acc) ==
    IF ~acc.ok \/ i1 > block.len1 - 2 THEN acc
    ELSE outline_bottom(grid, block, i1 + 1,
             OutlineMerge(grid, block, acc, i1, get_value(grid, block, i1, 0).sha1,
                          block.len2 - 1, acc.last))

\* the loop over the right edge: above = do_merge(i1, above, i2, self[0, i2].sha1)
RECURSIVE outline_right(_, _, _, _)
outline_right(grid, block, i2, acc) ==
    IF ~acc.ok \/ i2 > block.len2 - 2 THEN acc
    ELSE outline_right(grid, block, i2 + 1,
             OutlineMerge(grid, block, acc, block.len1 - 1, acc.last,
                          i2, get_value(grid, block, 0, i2).sha1))

\* the vertex of auto_outline, after both edges (left, above) went through
outline_vertex(grid, block, acc, left, above) ==
    LET i1 == block.len1 - 1
        i2 == block.len2 - 1
        tries(v) == IF v.tried THEN 1 ELSE 0
        both_ways(v1, v2) ==
            IF ~v1.ok
            THEN [acc EXCEPT !.ok = FALSE, !.n = @ + tries(v1), !.at = <<i1, i2>>,
                             !.pair = <<get_value(grid, block, i1, 0).sha1, left>>]
            ELSE IF ~v2.ok
            THEN [acc EXCEPT !.ok = FALSE, !.n = @ + tries(v1) + tries(v2), !.at = <<i1, i2>>,
                             !.pair = <<above, get_value(grid, block, 0, i2).sha1>>]
            ELSE IF get_tree(v1.commit) = get_tree(v2.commit)
            THEN [acc EXCEPT !.n = @ + tries(v1) + tries(v2),
                             !.merges = Append(@, <<i1, i2, reparent(v1.commit, <<above, left>>)>>)]
            ELSE [acc EXCEPT !.ok = FALSE, !.n = @ + tries(v1) + tries(v2),
                             !.at = <<i1, i2>>, !.pair = <<>>]
    IN  IF i1 > 1 /\ i2 > 1
        THEN both_ways(do_merge(grid, block, i1, get_value(grid, block, i1, 0).sha1, i2, left),
                       do_merge(grid, block, i1, above, i2, get_value(grid, block, 0, i2).sha1))
        ELSE OutlineMerge(grid, block, acc, i1, above, i2, left)

\* record_merges that goes on to fill the cell (1, 1) of the block
RECURSIVE record_merges_inner(_, _, _)
record_merges_inner(grid, block, merges) ==
    IF merges = <<>>
    THEN [grid EXCEPT ![get_original_indexes(block, 1, 1)] =
              record_merge(@, automerge(get_value(grid, block, 1, 0).sha1,
                                        get_value(grid, block, 0, 1).sha1).commit, NEW_AUTO)]
    ELSE LET m == Head(merges)
             cell == get_original_indexes(block, m[1], m[2])
         IN  record_merges_inner([grid EXCEPT ![cell] = record_merge(@, m[3], NEW_AUTO)],
                                 block, Tail(merges))

\* for (i1, i2, merge) in merges: self[i1, i2].record_merge(merge, NEW_AUTO)
RECURSIVE record_merges(_, _, _)
record_merges(grid, block, merges) ==
    IF merges = <<>> THEN grid
    ELSE LET m == Head(merges)
             cell == get_original_indexes(block, m[1], m[2])
         IN  record_merges([grid EXCEPT ![cell] = record_merge(@, m[3], NEW_AUTO)],
                           block, Tail(merges))

\* auto_outline recording each merge as it is made, a failure notwithstanding
auto_outline_eager(grid, block) ==
    LET acc0 == [ok |-> TRUE, merges |-> <<>>, n |-> 0, at |-> <<0, 0>>, pair |-> <<>>,
                 last |-> get_value(grid, block, 0, block.len2 - 1).sha1]
        finish(done) ==
            [ok |-> done.ok, at |-> done.at, pair |-> done.pair, n |-> done.n,
             grid |-> record_merges(grid, block, done.merges)]
        after_right(bottom, right) ==
            IF ~right.ok THEN right
            ELSE outline_vertex(grid, block, right, bottom.last, right.last)
        after_bottom(bottom) ==
            IF ~bottom.ok THEN bottom
            ELSE after_right(bottom,
                     outline_right(grid, block, 1,
                         [bottom EXCEPT !.last = get_value(grid, block, block.len1 - 1, 0).sha1]))
    IN  finish(after_bottom(outline_bottom(grid, block, 1, acc0)))

\* Block.auto_outline: ok = FALSE stands for UnexpectedMergeFailure(at)
auto_outline(grid, block) ==
    LET acc0 == [ok |-> TRUE, merges |-> <<>>, n |-> 0, at |-> <<0, 0>>, pair |-> <<>>,
                 last |-> get_value(grid, block, 0, block.len2 - 1).sha1]
        finish(done) ==
            [ok |-> done.ok, at |-> done.at, pair |-> done.pair, n |-> done.n,
             grid |-> IF done.ok THEN record_merges(grid, block, done.merges) ELSE grid]
        after_right(bottom, right) ==
            IF ~right.ok THEN right
            ELSE outline_vertex(grid, block, right, bottom.last, right.last)
        after_bottom(bottom) ==
            IF ~bottom.ok THEN bottom
            ELSE after_right(bottom,
                     outline_right(grid, block, 1,
                         [bottom EXCEPT !.last = get_value(grid, block, block.len1 - 1, 0).sha1]))
    IN  finish(after_bottom(outline_bottom(grid, block, 1, acc0)))

\* every cell of the largest grid, as an enumerated set
AllCells == UNION {{<<i1, i2>> : i2 \in 0 .. MaxLen2} : i1 \in 0 .. MaxLen1}

\* the cells whose MergeRecord differs between two grids
GridDiff(before, after) ==
    {c \in AllCells : c \in DOMAIN before /\ before[c] # after[c]}

\* the cells that were unknown and now hold a commit flagged NEW_AUTO and nothing else
GridFilled(before, after) ==
    {c \in AllCells : /\ c \in DOMAIN before
                       /\ ~is_known(before[c]) /\ is_known(after[c])
                       /\ after[c].flags = {NEW_AUTO}}

\* the cells whose MergeRecord differs between two grids, with the commit
\* they hold in the second
GridRecorded(before, after) ==
    {<<c, after[c].sha1>> : c \in GridDiff(before, after)}

\* the cells of the bottom edge, the right edge and the vertex of block (in
\* the indexes of the MergeState) that are not known
OutlineUnknown(grid, block) ==
    {c \in AllCells :
        /\ c \in DOMAIN grid
        /\ \/ (c[2] = block.s2 + block.len2 - 1 /\ block.s1 < c[1] /\ c[1] < block.s1 + block.len1)
           \/ (c[1] = block.s1 + block.len1 - 1 /\ block.s2 < c[2] /\ c[2] < block.s2 + block.len2)
        /\ ~is_known(grid[c])}

\* auto_outline within a command: the call is logged in st.calls, with what
\* it changed in the grid
Outline(st, block) ==
    LET logged(r) ==
            [ok |-> r.ok, at |-> r.at, pair |-> r.pair,
             st |-> [st EXCEPT !.grid = r.grid,
                               !.touched = @ \/ r.n > 0,
                               !.calls = Append(@, [block |-> block, ok |-> r.ok,
                                                    at |-> r.at, pair |-> r.pair, n |-> r.n,
                                                    unknown |-> OutlineUnknown(st.grid, block),
                                                    changed |-> GridDiff(st.grid, r.grid),
                                                    filled |-> GridFilled(st.grid, r.grid),
                                                    recorded |-> GridRecorded(st.grid, r.grid)])]]
    IN  logged(auto_outline(st.grid, block))

(* ----------------------- BlockwiseMergeFrontier ------------------------- *)

\* sorted(blocks, key=lambda block: block.len1): a stable sort
RECURSIVE insert_by_len1(_, _)
insert_by_len1(sorted, b) ==
    IF sorted = <<>> THEN <<b>>
    ELSE IF Head(sorted).len1 <= b.len1
    THEN <<Head(sorted)>> \o insert_by_len1(Tail(sorted), b)
    ELSE <<b>> \o sorted

RECURSIVE sorted_by_len1(_)
sorted_by_len1(blocks) ==
    IF blocks = <<>> THEN <<>>
    ELSE insert_by_len1(sorted_by_len1(SubSeq(blocks, 1, Len(blocks) - 1)),
                        blocks[Len(blocks)])

\* contains(block1, block2) of _normalized_blocks
block_contains(block1, block2) ==
    block1.len1 >= block2.len1 /\ block1.len2 >= block2.len2

\* the inner `while True` of _normalized_blocks for one block
RECURSIVE normalize_push(_, _)
normalize_push(ret, block) ==
    IF ret = <<>> THEN <<block>>
    ELSE LET last == ret[Len(ret)]
         IN  IF block_contains(last, block) THEN ret
             ELSE IF block_contains(block, last)
             THEN normalize_push(SubSeq(ret, 1, Len(ret) - 1), block)
             ELSE Append(ret, block)

RECURSIVE normalize_fold(_, _)
normalize_fold(ret, blocks) ==
    IF blocks = <<>> THEN ret
    ELSE LET block == Head(blocks)
         IN  IF block.len1 = 0 \/ block.len2 = 0
             THEN normalize_fold(ret, Tail(blocks))
             ELSE normalize_fold(normalize_push(ret, block), Tail(blocks))

\* the blocks sorted, empty and redundant ones kept
_normalized_blocks_sorted(blocks) == sorted_by_len1(blocks)

_normalized_blocks(blocks) == normalize_fold(<<>>, sorted_by_len1(blocks))

\* BlockwiseMergeFrontier(block, blocks)
BlockwiseMergeFrontier(block, blocks) ==
    [block |-> block, blocks |-> _normalized_blocks(blocks)]

\* the loop of remove_failure ending at the first block it cut
RECURSIVE remove_failure_blocks_first_only(_, _, _)
remove_failure_blocks_first_only(blocks, i1, i2) ==
    IF blocks = <<>> THEN <<>>
    ELSE LET block == Head(blocks)
         IN  IF i1 < block.len1 /\ i2 < block.len2
             THEN (IF i1 > 1 THEN <<Slice(block, 0, i1, 0, block.len2)>> ELSE <<>>) \o
                  (IF i2 > 1 THEN <<Slice(block, 0, block.len1, 0, i2)>> ELSE <<>>) \o
                  Tail(blocks)
             ELSE <<block>> \o remove_failure_blocks_first_only(Tail(blocks), i1, i2)

RECURSIVE remove_failure_blocks(_, _, _)
remove_failure_blocks(blocks, i1, i2) ==
    IF blocks = <<>> THEN <<>>
    ELSE LET block == Head(blocks)
         IN  (IF i1 < block.len1 /\ i2 < block.len2
              THEN (IF i1 > 1 THEN <<Slice(block, 0, i1, 0, block.len2)>> ELSE <<>>) \o
                   (IF i2 > 1 THEN <<Slice(block, 0, block.len1, 0, i2)>> ELSE <<>>)
              ELSE <<block>>) \o remove_failure_blocks(Tail(blocks), i1, i2)

\* remove_failure cutting the blocks one cell further out, the failed cell kept
remove_failure_inclusive(frontier, i1, i2) ==
    [frontier EXCEPT !.blocks = _normalized_blocks(remove_failure_blocks(@, i1 + 1, i2 + 1))]

\* remove_failure that keeps the blocks as they are
remove_failure_kept(frontier, i1, i2) == frontier

\* BlockwiseMergeFrontier.remove_failure
remove_failure(frontier, i1, i2) ==
    IF \E k \in 1 .. Len(frontier.blocks) :
           i1 < frontier.blocks[k].len1 /\ i2 < frontier.blocks[k].len2
    THEN [frontier EXCEPT !.blocks = _normalized_blocks(remove_failure_blocks(@, i1, i2))]
    ELSE frontier

\* partition(block): the sequence of the frontiers yielded (left, then right)
partition(frontier, block) ==
    LET IsRight(b) == b.len1 > block.len1 /\ b.len2 < block.len2
        IsLeft(b) == b.len1 < block.len1 /\ b.len2 > block.len2
        IsSelf(b) == b.len1 = block.len1 /\ b.len2 = block.len2
        MapLeft(b) == Slice(b, 0, b.len1, block.len2 - 1, b.len2)
        MapRight(b) == Slice(b, block.len1 - 1, b.len1, 0, b.len2)
        lefts == SelectSeq(frontier.blocks, IsLeft)
        rights == SelectSeq(frontier.blocks, IsRight)
        left == [k \in 1 .. Len(lefts) |-> MapLeft(lefts[k])]
        right == [k \in 1 .. Len(rights) |-> MapRight(rights[k])]
        bad == \E k \in 1 .. Len(frontier.blocks) :
                   LET b == frontier.blocks[k] IN ~IsSelf(b) /\ ~IsLeft(b) /\ ~IsRight(b)
    IN  [error |-> bad,
         frontiers |->
            (IF block.len2 < frontier.block.len2
             THEN <<BlockwiseMergeFrontier(
                        Slice(frontier.block, 0, block.len1, block.len2 - 1, frontier.block.len2),
                        left)>>
             ELSE <<>>) \o
            (IF block.len1 < frontier.block.len1
             THEN <<BlockwiseMergeFrontier(
                        Slice(frontier.block, block.len1 - 1, frontier.block.len1, 0, block.len2),
                        right)>>
             ELSE <<>>)]

iter_boundary_blocks(frontier) ==
    LET bs == frontier.blocks
        blk == frontier.block
    IN  (IF bs = <<>> \/ bs[1].len2 < blk.len2
         THEN <<Slice(blk, 0, 1, 0, blk.len2)>> ELSE <<>>) \o
        bs \o
        (IF bs = <<>> \/ bs[Len(bs)].len1 < blk.len1
         THEN <<Slice(blk, 0, blk.len1, 0, 1)>> ELSE <<>>)

iter_blocker_blocks(frontier) ==
    LET bb == iter_boundary_blocks(frontier)
    IN  [k \in 1 .. Len(bb) - 1 |->
            Slice(frontier.block, bb[k].len1 - 1, bb[k + 1].len1,
                  bb[k + 1].len2 - 1, bb[k].len2)]

BlockwiseMergeFrontier_is_complete(frontier) ==
    /\ Len(frontier.blocks) = 1
    /\ frontier.blocks[1].len1 = frontier.block.len1
    /\ frontier.blocks[1].len2 = frontier.block.len2

\* one iteration of the `while frontier` loop of initiate_merge; top is
\* top_level_frontier and isTop tells whether frontier is that same object.
\* done: the loop is left (by `break`, or by an exception noted in st.err)
initiate_merge_step(st, block, top, frontier, isTop) ==
    LET subblock == frontier.blocks[1]
        \* except UnexpectedMergeFailure as e
        on_failure(r, shrunk, conv) ==
            [st |-> [(IF r.at = <<1, 1>>
                      THEN SetBlocked(r.st, get_original_indexes(subblock, 1, 1), r.pair)
                      ELSE r.st)
                        EXCEPT !.err = IF ~isTop /\ conv = <<-1, -1>> THEN "IndexError" ELSE @],
             top |-> IF isTop THEN shrunk
                     ELSE IF conv = <<-1, -1>> THEN top
                     ELSE remove_failure(top, conv[1], conv[2]),
             frontier |-> shrunk, isTop |-> isTop,
             done |-> ~isTop /\ conv = <<-1, -1>>,
             failed |-> TRUE, at |-> IF isTop THEN r.at ELSE conv]
        \* else: the sub-frontiers of frontier.partition(subblock) that are not empty
        on_success(r, error, sub_frontiers) ==
            IF error \/ Len(sub_frontiers) > 1
            THEN [st |-> [r.st EXCEPT !.err = "ValueError"], top |-> top,
                  frontier |-> frontier, isTop |-> isTop, done |-> TRUE,
                  failed |-> FALSE, at |-> <<0, 0>>]
            ELSE IF sub_frontiers = <<>>
            THEN [st |-> r.st, top |-> top, frontier |-> frontier, isTop |-> isTop,
                  done |-> TRUE, failed |-> FALSE, at |-> <<0, 0>>]
            ELSE [st |-> r.st, top |-> top, frontier |-> sub_frontiers[1], isTop |-> FALSE,
                  done |-> FALSE, failed |-> FALSE, at |-> <<0, 0>>]
        partitioned(r, parts) ==
            on_success(r, parts.error, SelectSeq(parts.frontiers, LAMBDA f : f.blocks # <<>>))
        outlined(r) ==
            IF ~r.ok
            THEN on_failure(r, remove_failure(frontier, r.at[1], r.at[2]),
                            convert_original_indexes(block, subblock.s1 + r.at[1],
                                                     subblock.s2 + r.at[2]))
            ELSE partitioned(r, partition(frontier, subblock))
    IN  outlined(Outline(st, subblock))

\* the `while frontier` loop of initiate_merge
RECURSIVE initiate_merge_loop(_, _, _, _, _)
initiate_merge_loop(st, block, top, frontier, isTop) ==
    LET stepped(s) ==
            IF s.done THEN [st |-> s.st, frontier |-> s.top]
            ELSE initiate_merge_loop(s.st, block, s.top, s.frontier, s.isTop)
    IN  IF frontier.blocks = <<>> \/ st.err # "" THEN [st |-> st, frontier |-> top]
        ELSE stepped(initiate_merge_step(st, block, top, frontier, isTop))

\* BlockwiseMergeFrontier.initiate_merge(block)
initiate_merge(st, block) ==
    LET start(found_st, top_level_frontier) ==
            initiate_merge_loop(found_st, block, top_level_frontier, top_level_frontier, TRUE)
        from(found) == start(found.st, BlockwiseMergeFrontier(block, found.blocks))
    IN  from(find_frontier_blocks(st, block))

\* the path walk of map_known_frontier from (i1, i2); <<>> stands for the
\* RuntimeError 'Block is improperly formed!'
RECURSIVE map_walk(_, _, _, _, _, _)
map_walk(grid, block, path, i1, i2, down) ==
    LET free(j1, j2) == contains(grid, block, j1, j2) /\ ~Block_is_blocked(grid, block, j1, j2)
    IN  IF down
        THEN IF i2 = block.len2 - 1 THEN map_walk(grid, block, path, i1, i2, FALSE)
             ELSE IF free(i1, i2 + 1)
             THEN map_walk(grid, block, Append(path, <<i1, i2, TRUE>>), i1, i2 + 1, TRUE)
             ELSE map_walk(grid, block, path, i1, i2, FALSE)
        ELSE IF i1 = 0 THEN Append(path, <<i1, i2, FALSE>>)
             ELSE IF free(i1 - 1, i2)
             THEN map_walk(grid, block, Append(path, <<i1, i2, FALSE>>), i1 - 1, i2, TRUE)
             ELSE LET downs == {k \in 1 .. Len(path) : path[k][3]}
                  IN  IF downs = {} THEN <<>>
                      ELSE LET k == CHOOSE j \in downs : \A l \in downs : l <= j
                           IN  map_walk(grid, block, SubSeq(path, 1, k - 1),
                                        path[k][1], path[k][2], FALSE)

\* create_frontier(path) of map_known_frontier
create_frontier(block, path) ==
    LET turns == SelectSeq([k \in 1 .. Len(path) - 1 |-> k],
                           LAMBDA k : path[k][3] /\ ~path[k + 1][3])
    IN  BlockwiseMergeFrontier(block,
            [j \in 1 .. Len(turns) |->
                Slice(block, 0, path[turns[j] + 1][1] + 1, 0, path[turns[j] + 1][2] + 1)])

\* BlockwiseMergeFrontier.map_known_frontier(block)
map_known_frontier(grid, block) ==
    create_frontier(block, map_walk(grid, block, <<>>, block.len1 - 1, 0, TRUE))

\* blocks.sort(key=lambda block: block.get_original_indexes(0, 0))
RECURSIVE insert_by_origin(_, _)
insert_by_origin(sorted, b) ==
    IF sorted = <<>> THEN <<b>>
    ELSE IF \/ Head(sorted).s1 < b.s1
            \/ (Head(sorted).s1 = b.s1 /\ Head(sorted).s2 <= b.s2)
    THEN <<Head(sorted)>> \o insert_by_origin(Tail(sorted), b)
    ELSE <<b>> \o sorted

RECURSIVE sorted_by_origin(_)
sorted_by_origin(blocks) ==
    IF blocks = <<>> THEN <<>>
    ELSE insert_by_origin(sorted_by_origin(SubSeq(blocks, 1, Len(blocks) - 1)),
                          blocks[Len(blocks)])

\* `for block in blocks` of BlockwiseMergeFrontier.auto_expand, from blocks[k]
RECURSIVE expand_blocks(_, _, _)
expand_blocks(st, blocks, k) ==
    LET merged(r) ==
            IF r.st.err # "" THEN [st |-> r.st, result |-> "error", at |-> <<0, 0>>]
            ELSE IF r.frontier.blocks # <<>>
            THEN [st |-> r.st, result |-> "return", at |-> <<0, 0>>]
            ELSE expand_blocks(r.st, blocks, k + 1)
    IN  IF st.err # "" THEN [st |-> st, result |-> "error", at |-> <<0, 0>>]
        ELSE IF k > Len(blocks)
        THEN [st |-> st, result |-> "FrontierBlocked",
              at |-> get_original_indexes(blocks[1], 1, 1)]
        ELSE merged(initiate_merge(st, blocks[k]))

\* auto_expand that returns when none of the blocks could be expanded
BlockwiseMergeFrontier_auto_expand_returning_blocked(st, frontier) ==
    LET expand(blocks) ==
            IF blocks = <<>>
            THEN [st |-> st, result |-> "BlockComplete", at |-> <<0, 0>>]
            ELSE expand_blocks(st, sorted_by_origin(blocks), 1)
        returning(r) == IF r.result = "FrontierBlocked" THEN [r EXCEPT !.result = "return"]
                        ELSE r
    IN  returning(expand(iter_blocker_blocks(frontier)))

\* BlockwiseMergeFrontier.auto_expand
BlockwiseMergeFrontier_auto_expand(st, frontier) ==
    LET expand(blocks) ==
            IF blocks = <<>>
            THEN [st |-> st, result |-> "BlockComplete", at |-> <<0, 0>>]
            ELSE expand_blocks(st, sorted_by_origin(blocks), 1)
    IN  expand(iter_blocker_blocks(frontier))

(* ------------------- FullMergeFrontier, ManualMergeFrontier ------------- *)

\* Block.auto_fill_micromerge(i1, i2)
auto_fill_micromerge(st, block, i1, i2) ==
    IF \/ contains(st.grid, block, i1, i2)
       \/ ~contains(st.grid, block, i1 - 1, i2)
       \/ ~contains(st.grid, block, i1, i2 - 1)
    THEN [st |-> [st EXCEPT !.err = "AssertionError"], ok |-> FALSE]
    ELSE IF block.len1 <= i1 \/ block.len2 <= i2 \/ Block_is_blocked(st.grid, block, i1, i2)
    THEN [st |-> st, ok |-> FALSE]
    ELSE LET above == get_value(st.grid, block, i1, i2 - 1).sha1
             left == get_value(st.grid, block, i1 - 1, i2).sha1
             cell == get_original_indexes(block, i1, i2)
             merged(r) ==
                 IF r.ok
                 THEN [st |-> SetRecord(Touched(st, TRUE), cell,
                                        record_merge(st.grid[cell], r.commit, NEW_AUTO)),
                       ok |-> TRUE]
                 ELSE [st |-> SetBlocked(Touched(st, TRUE), cell, <<above, left>>),
                       ok |-> FALSE]
         IN  merged(automerge(above, left))

\* the loops of FullMergeFrontier.auto_expand keeping the last blocker met
RECURSIVE full_walk_last_blocker(_, _, _, _, _, _)
full_walk_last_blocker(st, block, i1, i2, len2cur, blocker) ==
    LET filled(r) ==
            IF r.ok THEN full_walk_last_blocker(r.st, block, i1, i2 + 1, len2cur, blocker)
            ELSE IF r.st.err # "" THEN [st |-> r.st, result |-> "error", at |-> <<0, 0>>]
            ELSE full_walk_last_blocker([r.st EXCEPT !.grid[get_original_indexes(block, i1, i2)] =
                                            record_blocked(@, TRUE)],
                           block, i1 + 1, 1, i2,
                           <<i1, i2>>)
    IN  IF st.err # "" THEN [st |-> st, result |-> "error", at |-> <<0, 0>>]
        ELSE IF i1 > block.len1 - 1
        THEN IF blocker # <<>>
             THEN [st |-> st, result |-> "FrontierBlocked",
                   at |-> get_original_indexes(block, blocker[1], blocker[2])]
             ELSE [st |-> st, result |-> "BlockComplete", at |-> <<0, 0>>]
        ELSE IF i2 > len2cur - 1 THEN full_walk_last_blocker(st, block, i1 + 1, 1, len2cur, blocker)
        ELSE IF contains(st.grid, block, i1, i2)
        THEN full_walk_last_blocker(st, block, i1, i2 + 1, len2cur, blocker)
        ELSE IF Block_is_blocked(st.grid, block, i1, i2)
        THEN full_walk_last_blocker(st, block, i1 + 1, 1, i2,
                       <<i1, i2>>)
        ELSE filled(auto_fill_micromerge(st, block, i1, i2))

\* the loops of FullMergeFrontier.auto_expand with a blocker ending its
\* column only, the later columns keeping their length
RECURSIVE full_walk_not_truncating(_, _, _, _, _, _)
full_walk_not_truncating(st, block, i1, i2, len2cur, blocker) ==
    LET filled(r) ==
            IF r.ok THEN full_walk_not_truncating(r.st, block, i1, i2 + 1, len2cur, blocker)
            ELSE IF r.st.err # "" THEN [st |-> r.st, result |-> "error", at |-> <<0, 0>>]
            ELSE full_walk_not_truncating([r.st EXCEPT !.grid[get_original_indexes(block, i1, i2)] =
                                            record_blocked(@, TRUE)],
                           block, i1 + 1, 1, len2cur,
                           IF blocker = <<>> THEN <<i1, i2>> ELSE blocker)
    IN  IF st.err # "" THEN [st |-> st, result |-> "error", at |-> <<0, 0>>]
        ELSE IF i1 > block.len1 - 1
        THEN IF blocker # <<>>
             THEN [st |-> st, result |-> "FrontierBlocked",
                   at |-> get_original_indexes(block, blocker[1], blocker[2])]
             ELSE [st |-> st, result |-> "BlockComplete", at |-> <<0, 0>>]
        ELSE IF i2 > len2cur - 1 THEN full_walk_not_truncating(st, block, i1 + 1, 1, len2cur, blocker)
        ELSE IF contains(st.grid, block, i1, i2)
        THEN full_walk_not_truncating(st, block, i1, i2 + 1, len2cur, blocker)
        ELSE IF Block_is_blocked(st.grid, block, i1, i2)
        THEN full_walk_not_truncating(st, block, i1 + 1, 1, len2cur,
                       IF blocker = <<>> THEN <<i1, i2>> ELSE blocker)
        ELSE filled(auto_fill_micromerge(st, block, i1, i2))

\* the two loops of FullMergeFrontier.auto_expand, at (i1, i2) with the
\* current value of len2 and of blocker (<<>> for None)
RECURSIVE full_walk(_, _, _, _, _, _)
full_walk(st, block, i1, i2, len2cur, blocker) ==
    LET filled(r) ==
            IF r.ok THEN full_walk(r.st, block, i1, i2 + 1, len2cur, blocker)
            ELSE IF r.st.err # "" THEN [st |-> r.st, result |-> "error", at |-> <<0, 0>>]
            ELSE full_walk([r.st EXCEPT !.grid[get_original_indexes(block, i1, i2)] =
                                            record_blocked(@, TRUE)],
                           block, i1 + 1, 1, i2,
                           IF blocker = <<>> THEN <<i1, i2>> ELSE blocker)
    IN  IF st.err # "" THEN [st |-> st, result |-> "error", at |-> <<0, 0>>]
        ELSE IF i1 > block.len1 - 1
        THEN IF blocker # <<>>
             THEN [st |-> st, result |-> "FrontierBlocked",
                   at |-> get_original_indexes(block, blocker[1], blocker[2])]
             ELSE [st |-> st, result |-> "BlockComplete", at |-> <<0, 0>>]
        ELSE IF i2 > len2cur - 1 THEN full_walk(st, block, i1 + 1, 1, len2cur, blocker)
        ELSE IF contains(st.grid, block, i1, i2)
        THEN full_walk(st, block, i1, i2 + 1, len2cur, blocker)
        ELSE IF Block_is_blocked(st.grid, block, i1, i2)
        THEN full_walk(st, block, i1 + 1, 1, i2,
                       IF blocker = <<>> THEN <<i1, i2>> ELSE blocker)
        ELSE filled(auto_fill_micromerge(st, block, i1, i2))

FullMergeFrontier_auto_expand(st, block) == full_walk(st, block, 1, 1, block.len2, <<>>)

FullMergeFrontier_is_complete(grid, block) ==
    contains(grid, block, block.len1 - 1, block.len2 - 1)

\* ManualMergeFrontier.auto_expand with the loops exchanged: i2 outer, i1 inner
ManualMergeFrontier_auto_expand_rows_first(st, block) ==
    LET unknown == {c \in (1 .. block.len1 - 1) \X (1 .. block.len2 - 1) :
                        ~contains(st.grid, block, c[1], c[2])}
    IN  IF unknown = {}
        THEN [st |-> st, result |-> "BlockComplete", at |-> <<0, 0>>]
        ELSE LET first == CHOOSE c \in unknown :
                              \A d \in unknown : c[2] < d[2] \/ (c[2] = d[2] /\ c[1] <= d[1])
             IN  [st |-> st, result |-> "FrontierBlocked",
                  at |-> get_original_indexes(block, first[1], first[2])]

\* ManualMergeFrontier.auto_expand: the first unknown cell, i1 outer, i2 inner
ManualMergeFrontier_auto_expand(st, block) ==
    LET unknown == {c \in (1 .. block.len1 - 1) \X (1 .. block.len2 - 1) :
                        ~contains(st.grid, block, c[1], c[2])}
    IN  IF unknown = {}
        THEN [st |-> st, result |-> "BlockComplete", at |-> <<0, 0>>]
        ELSE LET first == CHOOSE c \in unknown :
                              \A d \in unknown : c[1] < d[1] \/ (c[1] = d[1] /\ c[2] <= d[2])
             IN  [st |-> st, result |-> "FrontierBlocked",
                  at |-> get_original_indexes(block, first[1], first[2])]

(* ----------------------------- persistence ----------------------------- *)

Sources == {"auto", "manual"}

\* MergeRecord.save that leaves the auto ref of a manual cell in place
MergeRecord_save_keeping_auto(rec, rf, cell) ==
    IF rec.flags \cap MANUAL # {}
    THEN LET f1 == rec.flags \ AUTO
         IN  IF NEW_MANUAL \in f1 /\ rec.sha1 # NoCommit
             THEN [rec |-> [rec EXCEPT !.flags = (f1 \cup {SAVED_MANUAL}) \ {NEW_MANUAL}],
                   refs |-> [rf EXCEPT ![<<"manual", cell>>] = rec.sha1],
                   ops |-> <<<<"update", "manual", cell>>>>]
             ELSE [rec |-> [rec EXCEPT !.flags = f1 \ {NEW_MANUAL}], refs |-> rf, ops |-> <<>>]
    ELSE IF NEW_AUTO \in rec.flags /\ rec.sha1 # NoCommit
    THEN [rec |-> [rec EXCEPT !.flags = (@ \cup {SAVED_AUTO}) \ {NEW_AUTO}],
          refs |-> [rf EXCEPT ![<<"auto", cell>>] = rec.sha1],
          ops |-> <<<<"update", "auto", cell>>>>]
    ELSE [rec |-> rec, refs |-> rf, ops |-> <<>>]

\* MergeRecord.save that writes the ref of a saved manual merge anew at
\* every save: clear_ref, then set_ref
MergeRecord_save_rewriting(rec, rf, cell) ==
    IF SAVED_MANUAL \in rec.flags /\ NEW_MANUAL \notin rec.flags /\ rec.sha1 # NoCommit
    THEN [rec |-> rec, refs |-> rf,
          ops |-> <<<<"delete", "manual", cell>>, <<"update", "manual", cell>>>>]
    ELSE
    IF rec.flags \cap MANUAL # {}
    THEN LET obsolete == rec.flags \cap AUTO # {} /\ SAVED_AUTO \in rec.flags
             rf1 == IF obsolete THEN [rf EXCEPT ![<<"auto", cell>>] = NoCommit] ELSE rf
             ops1 == IF obsolete THEN <<<<"delete", "auto", cell>>>> ELSE <<>>
             f1 == rec.flags \ AUTO
         IN  IF NEW_MANUAL \in f1
             THEN IF rec.sha1 # NoCommit
                  THEN [rec |-> [rec EXCEPT !.flags = (f1 \cup {SAVED_MANUAL}) \ {NEW_MANUAL}],
                        refs |-> [rf1 EXCEPT ![<<"manual", cell>>] = rec.sha1],
                        ops |-> ops1 \o <<<<"update", "manual", cell>>>>]
                  ELSE IF SAVED_MANUAL \in f1
                  THEN [rec |-> [rec EXCEPT !.flags = f1 \ MANUAL],
                        refs |-> [rf1 EXCEPT ![<<"manual", cell>>] = NoCommit],
                        ops |-> ops1 \o <<<<"delete", "manual", cell>>>>]
                  ELSE [rec |-> [rec EXCEPT !.flags = f1 \ {NEW_MANUAL}], refs |-> rf1,
                        ops |-> ops1]
             ELSE [rec |-> [rec EXCEPT !.flags = f1], refs |-> rf1, ops |-> ops1]
    ELSE IF NEW_AUTO \in rec.flags
    THEN IF rec.sha1 # NoCommit
         THEN [rec |-> [rec EXCEPT !.flags = (@ \cup {SAVED_AUTO}) \ {NEW_AUTO}],
               refs |-> [rf EXCEPT ![<<"auto", cell>>] = rec.sha1],
               ops |-> <<<<"update", "auto", cell>>>>]
         ELSE IF SAVED_AUTO \in rec.flags
         THEN [rec |-> [rec EXCEPT !.flags = @ \ AUTO],
               refs |-> [rf EXCEPT ![<<"auto", cell>>] = NoCommit],
               ops |-> <<<<"delete", "auto", cell>>>>]
         ELSE [rec |-> [rec EXCEPT !.flags = @ \ {NEW_AUTO}], refs |-> rf, ops |-> <<>>]
    ELSE [rec |-> rec, refs |-> rf, ops |-> <<>>]

\* MergeRecord.save for the cell (i1, i2): the record and the refs afterwards,
\* and the calls of set_ref (update) and clear_ref (delete) in their order
MergeRecord_save(rec, rf, cell) ==
    IF rec.flags \cap MANUAL # {}
    THEN LET obsolete == rec.flags \cap AUTO # {} /\ SAVED_AUTO \in rec.flags
             rf1 == IF obsolete THEN [rf EXCEPT ![<<"auto", cell>>] = NoCommit] ELSE rf
             ops1 == IF obsolete THEN <<<<"delete", "auto", cell>>>> ELSE <<>>
             f1 == rec.flags \ AUTO
         IN  IF NEW_MANUAL \in f1
             THEN IF rec.sha1 # NoCommit
                  THEN [rec |-> [rec EXCEPT !.flags = (f1 \cup {SAVED_MANUAL}) \ {NEW_MANUAL}],
                        refs |-> [rf1 EXCEPT ![<<"manual", cell>>] = rec.sha1],
                        ops |-> ops1 \o <<<<"update", "manual", cell>>>>]
                  ELSE IF SAVED_MANUAL \in f1
                  THEN [rec |-> [rec EXCEPT !.flags = f1 \ MANUAL],
                        refs |-> [rf1 EXCEPT ![<<"manual", cell>>] = NoCommit],
                        ops |-> ops1 \o <<<<"delete", "manual", cell>>>>]
                  ELSE [rec |-> [rec EXCEPT !.flags = f1 \ {NEW_MANUAL}], refs |-> rf1,
                        ops |-> ops1]
             ELSE [rec |-> [rec EXCEPT !.flags = f1], refs |-> rf1, ops |-> ops1]
    ELSE IF NEW_AUTO \in rec.flags
    THEN IF rec.sha1 # NoCommit
         THEN [rec |-> [rec EXCEPT !.flags = (@ \cup {SAVED_AUTO}) \ {NEW_AUTO}],
               refs |-> [rf EXCEPT ![<<"auto", cell>>] = rec.sha1],
               ops |-> <<<<"update", "auto", cell>>>>]
         ELSE IF SAVED_AUTO \in rec.flags
         THEN [rec |-> [rec EXCEPT !.flags = @ \ AUTO],
               refs |-> [rf EXCEPT ![<<"auto", cell>>] = NoCommit],
               ops |-> <<<<"delete", "auto", cell>>>>]
         ELSE [rec |-> [rec EXCEPT !.flags = @ \ {NEW_AUTO}], refs |-> rf, ops |-> <<>>]
    ELSE [rec |-> rec, refs |-> rf, ops |-> <<>>]

\* the cells in the order of the loops of MergeState.save: i2 outer, i1 inner
RowMajor(l1, l2) == [k \in 1 .. l1 * l2 |-> <<(k - 1) % l1, (k - 1) \div l1>>]

RECURSIVE save_cells(_, _, _, _)
save_cells(grid, rf, order, k) ==
    LET saved(r) ==
            LET rest == save_cells([grid EXCEPT ![order[k]] = r.rec], r.refs, order, k + 1)
            IN  [grid |-> rest.grid, refs |-> rest.refs, ops |-> r.ops \o rest.ops]
    IN  IF k > Len(order) THEN [grid |-> grid, refs |-> rf, ops |-> <<>>]
        ELSE IF is_known(grid[order[k]])
        THEN saved(MergeRecord_save(grid[order[k]], rf, order[k]))
        ELSE save_cells(grid, rf, order, k + 1)

NoBlob == [blockers |-> {}, tip1 |-> "", tip2 |-> "", goal |-> "", goalopts |-> "",
           manual |-> FALSE, branch |-> ""]

\* read_imerge_state: `merges`; of two refs of a cell, for-each-ref lists
\* auto/ before manual/, so the manual one is the one kept
ReadMerges(rf, cell) ==
    IF rf[<<"manual", cell>>] # NoCommit THEN <<rf[<<"manual", cell>>], SAVED_MANUAL>>
    ELSE IF rf[<<"auto", cell>>] # NoCommit THEN <<rf[<<"auto", cell>>], SAVED_AUTO>>
    ELSE <<NoCommit, "">>

\* the number of commits collected by `for i in itertools.count(1)` along an edge
RECURSIVE CountEdge(_, _, _, _)
CountEdge(rf, maxlen, i, along1) ==
    IF i >= maxlen THEN i - 1
    ELSE IF ReadMerges(rf, IF along1 THEN <<i, 0>> ELSE <<0, i>>)[1] = NoCommit THEN i - 1
    ELSE CountEdge(rf, maxlen, i + 1, along1)

\* MergeState.read taking every ref for an automatic merge
ReadRecord_auto(rf, cell) ==
    LET m == ReadMerges(rf, cell)
    IN  IF m[1] = NoCommit THEN EmptyRecord ELSE record_merge(EmptyRecord, m[1], SAVED_AUTO)

\* the MergeRecords of MergeState.read before the blockers are applied
ReadRecord(rf, cell) ==
    LET m == ReadMerges(rf, cell)
    IN  IF m[1] = NoCommit THEN EmptyRecord ELSE record_merge(EmptyRecord, m[1], m[2])

\* MergeState.read(git, name) from refs stored for a grid of at most l1 x l2:
\* ok = FALSE stands for a Failure (or a KeyError on a missing merge base).
\* failures: what the call can end with instead of returning, each as the
\* kind of the exception and the indexes its message names.  The last loop
\* raises for the first ref out of range that `merges.items()` gives, and
\* the order of a dict is no part of what read is given: every ref out of
\* range can be the first one
MergeState_read(rf, bl, l1, l2) ==
    LET n1 == CountEdge(rf, l1, 1, TRUE)
        n2 == CountEdge(rf, l2, 1, FALSE)
        rl1 == n1 + 1
        rl2 == n2 + 1
        stored == {c \in Cells(l1, l2) : ReadMerges(rf, c)[1] # NoCommit}
        boundaryOK ==
            /\ ReadMerges(rf, <<0, 0>>)[2] = SAVED_MANUAL
            /\ \A i \in 1 .. n1 : ReadMerges(rf, <<i, 0>>)[2] = SAVED_MANUAL
            /\ \A i \in 1 .. n2 : ReadMerges(rf, <<0, i>>)[2] = SAVED_MANUAL
            /\ n1 >= 1 /\ n2 >= 1
        inRange == \A c \in stored : c[1] < rl1 /\ c[2] < rl2
        grid0 == [c \in Cells(rl1, rl2) |-> ReadRecord(rf, c)]
        blockersOK == bl.blockers \subseteq Cells(rl1, rl2)
        grid1 == [c \in Cells(rl1, rl2) |->
                     IF c \in bl.blockers THEN record_blocked(grid0[c], TRUE) ELSE grid0[c]]
        raised(kind, i1, i2) == {[kind |-> kind, at |-> <<i1, i2>>]}
        first(S) == CHOOSE i \in S : \A j \in S : i <= j
        auto1 == {i \in 1 .. n1 : ReadMerges(rf, <<i, 0>>)[2] # SAVED_MANUAL}
        auto2 == {i \in 1 .. n2 : ReadMerges(rf, <<0, i>>)[2] # SAVED_MANUAL}
        failures ==
            IF bl = NoBlob THEN raised("No state found", 0, 0)
            ELSE IF ReadMerges(rf, <<0, 0>>)[1] = NoCommit THEN raised("KeyError", 0, 0)
            ELSE IF ReadMerges(rf, <<0, 0>>)[2] # SAVED_MANUAL
            THEN raised("should be manual", 0, 0)
            ELSE IF auto1 # {} THEN raised("should be manual", first(auto1), 0)
            ELSE IF auto2 # {} THEN raised("should be manual", 0, first(auto2))
            \* commits1[-1], commits2[-1] of an empty list
            ELSE IF n1 = 0 \/ n2 = 0 THEN raised("IndexError", 0, 0)
            ELSE IF ~inRange
            THEN UNION {IF c[1] = 0 /\ c[2] >= rl2 THEN raised("is missing", 0, rl2)
                        ELSE IF c[1] >= rl1 /\ c[2] = 0 THEN raised("is missing", rl1, 0)
                        ELSE IF c[1] >= rl1 \/ c[2] >= rl2
                        THEN raised("is out of range", c[1], c[2])
                        ELSE {} : c \in stored}
            ELSE IF ~blockersOK THEN raised("IndexError", 0, 0)
            ELSE {}
    IN  IF bl = NoBlob \/ ~boundaryOK \/ ~inRange \/ ~blockersOK
        THEN [ok |-> FALSE, len1 |-> rl1, len2 |-> rl2, grid |-> <<>>, blob |-> bl,
              failures |-> failures]
        ELSE [ok |-> TRUE, len1 |-> rl1, len2 |-> rl2, grid |-> grid1, blob |-> bl,
              failures |-> {}]

\* what C8 compares of a MergeState: the dimensions, the commit and the
\* provenance of every known cell (the other cells are the unknown ones), the
\* BLOCKED cells, and the fields kept in the state blob
StateView(l1, l2, grid, fields) ==
    [len1 |-> l1, len2 |-> l2,
     known |-> {<<c, grid[c].sha1, is_manual(grid[c])>> :
                   c \in {d \in AllCells : d \in Cells(l1, l2) /\ is_known(grid[d])}},
     blocked |-> {c \in AllCells : c \in Cells(l1, l2) /\ is_blocked(grid[c])},
     tip1 |-> fields.tip1, tip2 |-> fields.tip2, goal |-> fields.goal,
     goalopts |-> fields.goalopts, manual |-> fields.manual, branch |-> fields.branch]

\* the view of what MergeState.read returns; a Failure is the view of no grid
ReadView(rf, bl, l1, l2) ==
    LET view(rd) == IF rd.ok THEN StateView(rd.len1, rd.len2, rd.grid, rd.blob)
                    ELSE StateView(0, 0, <<>>, NoBlob)
    IN  view(MergeState_read(rf, bl, l1, l2))

\* A MergeState in memory together with the repository it writes to:
\*   st: the grid and what is observed (see SetRecord); goal, manual, tip1,
\*   tip2, goalopts, branch: the fields of MergeState; refs, blob: the refs
\*   under refs/imerge/NAME.
\* Every save is logged in st.saves: the view of the MergeState saved, and
\* the view of the MergeState that MergeState.read builds from what it wrote;
\* the writes to the repository in their order (the last one is
\* write_imerge_state_dict), the cells left with a NEW_ flag, the refs
\* left, and the refs and the state blob that the save found.

\* MergeState.save that writes the state blob before the cells
MergeState_save_state_first(ms) ==
    LET saved(r) ==
            LET post == [ms EXCEPT !.st.grid = r.grid,
                                   !.refs = r.refs,
                                   !.blob = [blockers |-> {c \in Cells(ms.len1, ms.len2) : is_blocked(r.grid[c])},
                                             tip1 |-> ms.tip1, tip2 |-> ms.tip2, goal |-> ms.goal,
                                             goalopts |-> ms.goalopts, manual |-> ms.manual,
                                             branch |-> ms.branch]]
            IN  [post EXCEPT !.st.saves =
                     @ \cup {[before |-> StateView(ms.len1, ms.len2, ms.st.grid, ms),
                              after |-> ReadView(post.refs, post.blob, post.len1, post.len2),
                              writes |-> <<<<"write", "state", <<>>>>>> \o r.ops,
                              new |-> {d \in AllCells :
                                          /\ d \in Cells(ms.len1, ms.len2)
                                          /\ r.grid[d].flags \cap NEW_ # {}},
                              refs |-> r.refs,
                              refs0 |-> UNION {{<<<<src, c>>, ms.refs[<<src, c>>]>> :
                                                  c \in {d \in AllCells :
                                                            /\ d \in Cells(ms.len1, ms.len2)
                                                            /\ ms.refs[<<src, d>>] # NoCommit}} :
                                               src \in Sources},
                              blob0 |-> [ms.blob EXCEPT !.blockers =
                                            {d \in AllCells : d \in ms.blob.blockers}]]}]
    IN  saved(save_cells(ms.st.grid, ms.refs, RowMajor(ms.len1, ms.len2), 1))

MergeState_save(ms) ==
    LET saved(r) ==
            LET post == [ms EXCEPT !.st.grid = r.grid,
                                   !.refs = r.refs,
                                   !.blob = [blockers |-> {c \in Cells(ms.len1, ms.len2) : is_blocked(r.grid[c])},
                                             tip1 |-> ms.tip1, tip2 |-> ms.tip2, goal |-> ms.goal,
                                             goalopts |-> ms.goalopts, manual |-> ms.manual,
                                             branch |-> ms.branch]]
            IN  [post EXCEPT !.st.saves =
                     @ \cup {[before |-> StateView(ms.len1, ms.len2, ms.st.grid, ms),
                              after |-> ReadView(post.refs, post.blob, post.len1, post.len2),
                              writes |-> r.ops \o <<<<"write", "state", <<>>>>>>,
                              new |-> {d \in AllCells :
                                          /\ d \in Cells(ms.len1, ms.len2)
                                          /\ r.grid[d].flags \cap NEW_ # {}},
                              refs |-> r.refs,
                              refs0 |-> UNION {{<<<<src, c>>, ms.refs[<<src, c>>]>> :
                                                  c \in {d \in AllCells :
                                                            /\ d \in Cells(ms.len1, ms.len2)
                                                            /\ ms.refs[<<src, d>>] # NoCommit}} :
                                               src \in Sources},
                              blob0 |-> [ms.blob EXCEPT !.blockers =
                                            {d \in AllCells : d \in ms.blob.blockers}]]}]
    IN  saved(save_cells(ms.st.grid, ms.refs, RowMajor(ms.len1, ms.len2), 1))

(* ------------------------------ MergeState ----------------------------- *)

Root(ms) == RootBlock(ms.len1, ms.len2)

\* which class MergeState.map_frontier instantiates
\* the frontier chosen without regard to the goal
FrontierKind_anygoal(isManual, g) ==
    IF isManual THEN "Manual" ELSE "Blockwise"

FrontierKind(isManual, g) ==
    IF isManual THEN "Manual" ELSE IF g = "full" THEN "Full" ELSE "Blockwise"

\* map_frontier().is_complete()
is_complete(grid, l1, l2, isManual, g) ==
    IF FrontierKind(isManual, g) = "Blockwise"
    THEN BlockwiseMergeFrontier_is_complete(map_known_frontier(grid, RootBlock(l1, l2)))
    ELSE FullMergeFrontier_is_complete(grid, RootBlock(l1, l2))

\* frontier = self.map_frontier(); frontier.auto_expand()
auto_expand(ms) ==
    LET kind == FrontierKind(ms.manual, ms.goal)
        mapped(path) ==
            IF path = <<>>
            THEN [st |-> [ms.st EXCEPT !.err = "RuntimeError"], result |-> "error",
                  at |-> <<0, 0>>]
            ELSE BlockwiseMergeFrontier_auto_expand(ms.st, create_frontier(Root(ms), path))
    IN  IF kind = "Manual" THEN ManualMergeFrontier_auto_expand(ms.st, Root(ms))
        ELSE IF kind = "Full" THEN FullMergeFrontier_auto_expand(ms.st, Root(ms))
        ELSE mapped(map_walk(ms.st.grid, Root(ms), <<>>, ms.len1 - 1, 0, TRUE))

\* auto_complete_frontier that saves only when auto_expand returned
auto_complete_frontier_saving_on_return(ms) ==
    LET RECURSIVE complete(_)
        complete(m) ==
            LET r == auto_expand(m)
            IN  IF r.result = "return"
                THEN complete(MergeState_save([m EXCEPT !.st = r.st]))
                ELSE IF r.result = "BlockComplete"
                THEN [ms |-> [m EXCEPT !.st = r.st], result |-> "complete", at |-> <<0, 0>>]
                ELSE [ms |-> [m EXCEPT !.st = r.st], result |-> r.result, at |-> r.at]
    IN  complete(ms)

\* MergeState.auto_complete_frontier: result is "complete" (it returned),
\* "FrontierBlocked" (raised, at the cell given) or "error"
RECURSIVE auto_complete_frontier(_)
auto_complete_frontier(ms) ==
    LET finally(r, saved) ==
            IF r.result = "return" THEN auto_complete_frontier(saved)
            ELSE IF r.result = "BlockComplete"
            THEN [ms |-> saved, result |-> "complete", at |-> <<0, 0>>]
            ELSE [ms |-> saved, result |-> r.result, at |-> r.at]
        expanded(r) == finally(r, MergeState_save([ms EXCEPT !.st = r.st]))
    IN  expanded(auto_expand(ms))

\* find_index that does not look at the boundary of the grid
find_index_merges_only(grid, l1, l2, commit) ==
    LET order == RowMajor(l1, l2)
        hits == {k \in 1 .. Len(order) :
                    /\ grid[order[k]].sha1 = commit /\ is_known(grid[order[k]])
                    /\ order[k][1] > 0 /\ order[k][2] > 0}
    IN  IF hits = {} THEN <<-1, -1>>
        ELSE order[CHOOSE k \in hits : \A j \in hits : k <= j]

\* MergeState.find_index(commit); <<-1, -1>> stands for CommitNotFoundError
find_index(grid, l1, l2, commit) ==
    LET order == RowMajor(l1, l2)
        hits == {k \in 1 .. Len(order) : grid[order[k]].sha1 = commit /\ is_known(grid[order[k]])}
    IN  IF hits = {} THEN <<-1, -1>>
        ELSE order[CHOOSE k \in hits : \A j \in hits : k <= j]

\* MergeState.incorporate_manual_merge(commit): ok = FALSE stands for
\* ManualMergeUnusableError
incorporate_manual_merge(ms, commit) ==
    LET parents == get_commit_parents(commit)
        nope == [ok |-> FALSE, ms |-> ms, at |-> <<0, 0>>]
        found(first, second) ==
            LET swapped == first[1] < second[1]
                f == IF swapped THEN second ELSE first
                g == IF swapped THEN first ELSE second
                c == IF swapped THEN reparent(commit, <<parents[2], parents[1]>>)
                     ELSE commit
                cell == <<f[1], g[2]>>
            IN  IF first = <<-1, -1>> \/ second = <<-1, -1>> THEN nope
                ELSE IF f[1] # g[1] + 1 \/ f[2] # g[2] - 1 THEN nope
                ELSE [ok |-> TRUE,
                      ms |-> [ms EXCEPT !.st.grid[cell] = record_merge(@, c, NEW_MANUAL)],
                      at |-> cell]
    IN  IF Len(parents) # 2 THEN nope
        ELSE found(find_index(ms.st.grid, ms.len1, ms.len2, parents[1]),
                   find_index(ms.st.grid, ms.len1, ms.len2, parents[2]))

\* get_affected_blocker_block that accepts any cell of a blocker block
get_affected_blocker_block_any_cell(frontier, i1, i2) ==
    LET none == [s1 |-> 0, s2 |-> 0, len1 |-> 0, len2 |-> 0]
        first_of(blocks, inside) ==
            IF inside = {} THEN none
            ELSE blocks[CHOOSE j \in inside : \A l \in inside : j <= l]
        among(blocks) ==
            first_of(blocks, {k \in 1 .. Len(blocks) :
                                 convert_original_indexes(blocks[k], i1, i2) # <<-1, -1>>})
    IN  among(iter_blocker_blocks(frontier))

\* BlockwiseMergeFrontier.get_affected_blocker_block(i1, i2): the block, or a
\* block of length 0 for NotABlockingCommitError
get_affected_blocker_block(frontier, i1, i2) ==
    LET none == [s1 |-> 0, s2 |-> 0, len1 |-> 0, len2 |-> 0]
        first_of(blocks, inside) ==
            IF inside = {} THEN none
            ELSE LET k == CHOOSE j \in inside : \A l \in inside : j <= l
                 IN  IF convert_original_indexes(blocks[k], i1, i2) = <<1, 1>> THEN blocks[k]
                     ELSE none
        among(blocks) ==
            first_of(blocks, {k \in 1 .. Len(blocks) :
                                 convert_original_indexes(blocks[k], i1, i2) # <<-1, -1>>})
    IN  among(iter_blocker_blocks(frontier))

\* merge_frontier = self.map_frontier(); merge_frontier.incorporate_merge(i1, i2):
\* ok = FALSE stands for NotABlockingCommitError
incorporate_merge(ms, i1, i2) ==
    LET unblock(b) ==
            IF b.len1 = 0 THEN [ok |-> FALSE, ms |-> ms]
            ELSE [ok |-> TRUE,
                  ms |-> [ms EXCEPT !.st.grid[get_original_indexes(b, 1, 1)] =
                                         record_blocked(@, FALSE)]]
    IN  IF FrontierKind(ms.manual, ms.goal) = "Blockwise"
        THEN unblock(get_affected_blocker_block(map_known_frontier(ms.st.grid, Root(ms)),
                                                i1, i2))
        ELSE IF ~is_blocked(ms.st.grid[<<i1, i2>>]) THEN [ok |-> FALSE, ms |-> ms]
        ELSE [ok |-> TRUE, ms |-> [ms EXCEPT !.st.grid[<<i1, i2>>] = record_blocked(@, FALSE)]]

\* the commit `git commit` makes of a merge of mergeHead into the commit checked out
UserCommitOf(first, second) ==
    [parents |-> <<first, second>>,
     tree |-> <<Max(CellOf(first)[1], CellOf(second)[1]),
                Max(CellOf(first)[2], CellOf(second)[2]), 0>>,
     by |-> "user"]

\* incorporate_user_merge that detaches HEAD and deletes the scratch ref
\* before it looks at the commit
incorporate_user_merge_detaching_first(ms, g) ==
    LET same(res) == [result |-> res, ms |-> ms, at |-> <<0, 0>>, g |-> g]
        inProgress == g.mergeHead # NoCommit
        g1 == IF inProgress
              THEN [g EXCEPT !.scratch = UserCommitOf(g.scratch, g.mergeHead),
                             !.mergeHead = NoCommit, !.worktree = "clean"]
              ELSE g
        g2 == [g1 EXCEPT !.head = "detached", !.scratch = NoCommit]
        unblocked(at, mf) ==
            [result |-> IF mf.ok THEN "incorporated" ELSE "NotABlockingCommitError",
             ms |-> MergeState_save(mf.ms), at |-> at, g |-> g2]
        recorded(im) ==
            IF ~im.ok
            THEN [result |-> "ManualMergeUnusableError", ms |-> ms, at |-> <<0, 0>>, g |-> g2]
            ELSE unblocked(im.at, incorporate_merge(im.ms, im.at[1], im.at[2]))
    IN  IF g.scratch = NoCommit THEN same("NoManualMergeError")
        ELSE IF g.head = "detached" THEN same("NoManualMergeError")
        ELSE IF g.head # "scratch"
        THEN IF find_index(ms.st.grid, ms.len1, ms.len2, g.scratch) = <<-1, -1>>
             THEN same("Failure")
             ELSE [result |-> "NoManualMergeError", ms |-> ms, at |-> <<0, 0>>,
                   g |-> [g EXCEPT !.scratch = NoCommit]]
        ELSE IF inProgress /\ g.worktree = "conflicted"
        THEN same("UncleanWorkTreeError")
        ELSE IF g1.worktree # "clean"
        THEN [result |-> "UncleanWorkTreeError", ms |-> ms, at |-> <<0, 0>>, g |-> g1]
        ELSE recorded(incorporate_manual_merge(ms, g1.scratch))

\* MergeState.incorporate_user_merge, with the repository state around it:
\* g = [scratch, head, mergeHead, worktree].  result is "incorporated" (it
\* returned) or the exception raised.
incorporate_user_merge(ms, g) ==
    LET same(res) == [result |-> res, ms |-> ms, at |-> <<0, 0>>, g |-> g]
        inProgress == g.mergeHead # NoCommit
        \* after commit_user_merge
        g1 == IF inProgress
              THEN [g EXCEPT !.scratch = UserCommitOf(g.scratch, g.mergeHead),
                             !.mergeHead = NoCommit, !.worktree = "clean"]
              ELSE g
        g2 == [g1 EXCEPT !.head = "detached", !.scratch = NoCommit]
        unblocked(at, mf) ==
            [result |-> IF mf.ok THEN "incorporated" ELSE "NotABlockingCommitError",
             ms |-> MergeState_save(mf.ms), at |-> at, g |-> g2]
        recorded(im) ==
            IF ~im.ok
            THEN [result |-> "ManualMergeUnusableError", ms |-> ms, at |-> <<0, 0>>, g |-> g1]
            ELSE unblocked(im.at, incorporate_merge(im.ms, im.at[1], im.at[2]))
    IN  IF g.scratch = NoCommit THEN same("NoManualMergeError")
        ELSE IF g.head = "detached" THEN same("NoManualMergeError")
        ELSE IF g.head # "scratch"
        THEN IF find_index(ms.st.grid, ms.len1, ms.len2, g.scratch) = <<-1, -1>>
             THEN same("Failure")
             ELSE [result |-> "NoManualMergeError", ms |-> ms, at |-> <<0, 0>>,
                   g |-> [g EXCEPT !.scratch = NoCommit]]
        ELSE IF inProgress /\ g.worktree = "conflicted"
        THEN same("UncleanWorkTreeError")
        ELSE IF g1.worktree # "clean"
        THEN [result |-> "UncleanWorkTreeError", ms |-> ms, at |-> <<0, 0>>, g |-> g1]
        ELSE recorded(incorporate_manual_merge(ms, g1.scratch))

\* MergeState.request_user_merge(i1, i2): the repository state afterwards
request_user_merge(ms, i1, i2, g) ==
    LET above == ms.st.grid[<<i1, i2 - 1>>]
        left == ms.st.grid[<<i1 - 1, i2>>]
    IN  IF ~is_known(above) \/ ~is_known(left)
        THEN [ok |-> FALSE, g |-> g]
        ELSE [ok |-> TRUE,
              g |-> [scratch |-> above.sha1, head |-> "scratch", mergeHead |-> left.sha1,
                     worktree |-> IF automerge(above.sha1, left.sha1).ok THEN "staged"
                                  ELSE "conflicted"]]

(* ------------------------- the commands, the user ---------------------- *)

\* the goals explored (a subset of ALLOWED_GOALS); 'full' selects the
\* FullMergeFrontier, every other goal the BlockwiseMergeFrontier
Goals == {"full", "merge"}

RECURSIVE SubsetsUpTo(_, _)
SubsetsUpTo(S, k) ==
    IF k = 0 THEN {{}}
    ELSE LET prev == SubsetsUpTo(S, k - 1)
         IN  prev \cup {p \cup {x} : p \in prev, x \in S}

NoCause == [pair |-> <<>>, held |-> <<>>]

\* MergeState.__init__ called by MergeState.initialize: the boundary is
\* recorded with NEW_MANUAL
\* initialization recording the boundary as automatic merges
MergeState_init_auto(l1, l2, g, isManual) ==
    [st |-> [grid |-> [c \in Cells(l1, l2) |->
                          IF c[1] = 0 \/ c[2] = 0
                          THEN record_merge(EmptyRecord, OrigCommit(c[1], c[2]), NEW_AUTO)
                          ELSE EmptyRecord],
             why |-> [c \in Cells(l1, l2) |-> NoCause],
             calls |-> <<>>, saves |-> {}, err |-> "", touched |-> FALSE],
     len1 |-> l1, len2 |-> l2, goal |-> g, manual |-> isManual,
     tip1 |-> "tip1", tip2 |-> "tip2", goalopts |-> "null", branch |-> "branch",
     refs |-> [r \in Sources \X Cells(l1, l2) |-> NoCommit],
     blob |-> NoBlob]

MergeState_init(l1, l2, g, isManual) ==
    [st |-> [grid |-> [c \in Cells(l1, l2) |->
                          IF c[1] = 0 \/ c[2] = 0
                          THEN record_merge(EmptyRecord, OrigCommit(c[1], c[2]), NEW_MANUAL)
                          ELSE EmptyRecord],
             why |-> [c \in Cells(l1, l2) |-> NoCause],
             calls |-> <<>>, saves |-> {}, err |-> "", touched |-> FALSE],
     len1 |-> l1, len2 |-> l2, goal |-> g, manual |-> isManual,
     tip1 |-> "tip1", tip2 |-> "tip2", goalopts |-> "null", branch |-> "branch",
     refs |-> [r \in Sources \X Cells(l1, l2) |-> NoCommit],
     blob |-> NoBlob]

\* the MergeState that MergeState.read builds from the refs
MergeState_of(rd, rf, why) ==
    [st |-> [grid |-> rd.grid, why |-> why,
             calls |-> <<>>, saves |-> {}, err |-> "", touched |-> FALSE],
     len1 |-> rd.len1, len2 |-> rd.len2, goal |-> rd.blob.goal, manual |-> rd.blob.manual,
     tip1 |-> rd.blob.tip1, tip2 |-> rd.blob.tip2, goalopts |-> rd.blob.goalopts,
     branch |-> rd.blob.branch, refs |-> rf, blob |-> rd.blob]

\* no call of initiate_merge is under way
NoLoop ==
    [pc |-> "idle", block |-> RootBlock(0, 0),
     top |-> [block |-> RootBlock(0, 0), blocks |-> <<>>],
     prev |-> [block |-> RootBlock(0, 0), blocks |-> <<>>],
     frontier |-> [block |-> RootBlock(0, 0), blocks |-> <<>>],
     isTop |-> TRUE, failed |-> FALSE, at |-> <<0, 0>>, backtracked |-> FALSE,
     odd |-> FALSE,
     st |-> [grid |-> <<>>, why |-> <<>>, calls |-> <<>>, saves |-> {}, err |-> "",
             touched |-> FALSE]]

Outcome(cmd, inc, incAt, incHead, incScratch, result, at, err) ==
    [cmd |-> cmd, inc |-> inc, incAt |-> incAt, incHead |-> incHead,
     incScratch |-> incScratch, result |-> result, at |-> at, err |-> err]

\* the state after `git-imerge init`: MergeState.initialize, then save
Init ==
    /\ len1 \in 2 .. MaxLen1
    /\ len2 \in 2 .. MaxLen2
    /\ (len1 - 1) * (len2 - 1) <= MaxArea
    /\ goal \in Goals
    /\ manual \in BOOLEAN
    \* the Full frontier makes micromerges only
    /\ conflicts \in SubsetsUpTo(IF goal = "full" THEN MicroKeys(len1, len2)
                                  ELSE MergeKeys(len1, len2), MaxConflicts)
    /\ oddTrees \in SubsetsUpTo(VertexCells(len1, len2), MaxOddTrees)
    \* the Manual frontier merges nothing itself, and only outlining (the
    \* Blockwise frontier) merges a vertex in two ways
    /\ manual => conflicts = {}
    /\ (manual \/ goal = "full") => oddTrees = {}
    /\ LET ms == MergeState_save(MergeState_init(len1, len2, goal, manual))
       IN  /\ refs = ms.refs
           /\ blob = ms.blob
           /\ M = ms.st.grid
           /\ cause = ms.st.why
    /\ scratch = NoCommit
    /\ head = "branch"
    /\ mergeHead = NoCommit
    /\ worktree = "clean"
    /\ outcome = Outcome("init", "", <<0, 0>>, "branch", NoCommit, "saved", <<0, 0>>, "")
    /\ outlines = <<>>
    /\ saves = MergeState_save(MergeState_init(len1, len2, goal, manual)).st.saves
    /\ ownMerges = 0
    /\ loop = NoLoop
    /\ target = NoCommit
    /\ simplifies = 0
    /\ refnames = {}
    /\ call = <<>>

Repo == [scratch |-> scratch, head |-> head, mergeHead |-> mergeHead, worktree |-> worktree]

SetRepo(g) ==
    /\ scratch' = g.scratch
    /\ head' = g.head
    /\ mergeHead' = g.mergeHead
    /\ worktree' = g.worktree

SetMergeState(ms) ==
    /\ refs' = ms.refs
    /\ blob' = ms.blob
    /\ M' = ms.st.grid
    /\ goal' = ms.goal
    /\ manual' = ms.manual
    /\ cause' = ms.st.why
    /\ outlines' = ms.st.calls
    /\ saves' = ms.st.saves

\* cmd_continue: read the state, incorporate the user's merge if there is
\* one, complete the frontier, and request a user merge if it is blocked
Continue ==
    LET completed(inc, ac, g1) ==
            /\ SetMergeState(ac.ms)
            /\ IF ac.result = "FrontierBlocked"
               THEN LET requested(req) ==
                            /\ SetRepo(req.g)
                            /\ outcome' = Outcome("continue", inc.result, inc.at, inc.g.head,
                                                  inc.g.scratch, "FrontierBlocked", ac.at,
                                                  IF req.ok THEN "" ELSE "RuntimeError")
                    IN  requested(request_user_merge(ac.ms, ac.at[1], ac.at[2], g1))
               ELSE /\ SetRepo(g1)
                    /\ outcome' = Outcome("continue", inc.result, inc.at, inc.g.head,
                                          inc.g.scratch, ac.result, ac.at, ac.ms.st.err)
        detached(inc, ac) ==
            completed(inc, ac, IF ac.ms.st.touched THEN [inc.g EXCEPT !.head = "detached"]
                               ELSE inc.g)
        incorporated(inc) ==
            IF inc.result \notin {"incorporated", "NoManualMergeError"}
            THEN /\ SetMergeState(inc.ms)
                 /\ SetRepo(inc.g)
                 /\ outcome' = Outcome("continue", inc.result, inc.at, inc.g.head,
                                       inc.g.scratch, "failed", <<0, 0>>, "")
            ELSE detached(inc, auto_complete_frontier(inc.ms))
        loaded(rd) ==
            /\ rd.ok
            /\ incorporated(incorporate_user_merge(MergeState_of(rd, refs, cause), Repo))
    IN  /\ loaded(MergeState_read(refs, blob, len1, len2))
        /\ UNCHANGED <<refnames, call, target, simplifies, len1, len2, conflicts, oddTrees, ownMerges, loop>>

\* The user acts between commands, never while one is at a step of its own.
\* the user resolves the conflicts of the merge in progress and stages the result
UserResolve ==
    /\ "pc" \notin DOMAIN call
    /\ head = "scratch"
    /\ mergeHead # NoCommit
    /\ worktree = "conflicted"
    /\ worktree' = "staged"
    /\ outcome' = [outcome EXCEPT !.cmd = "user"]
    /\ UNCHANGED <<refnames, call, target, simplifies, len1, len2, conflicts, oddTrees, refs, blob, scratch, head, mergeHead,
                   M, goal, manual, cause, outlines, saves, ownMerges, loop>>

\* the user commits the merge in progress (`git commit`)
UserCommit ==
    /\ "pc" \notin DOMAIN call
    /\ head = "scratch"
    /\ mergeHead # NoCommit
    /\ worktree = "staged"
    /\ scratch' = UserCommitOf(scratch, mergeHead)
    /\ mergeHead' = NoCommit
    /\ worktree' = "clean"
    /\ outcome' = [outcome EXCEPT !.cmd = "user"]
    /\ UNCHANGED <<refnames, call, target, simplifies, len1, len2, conflicts, oddTrees, refs, blob, head,
                   M, goal, manual, cause, outlines, saves, ownMerges, loop>>

\* the user drops the merge in progress and commits, on the scratch branch, a
\* merge of their own of the commits of two adjacent cells, in either order
UserOwnMerge ==
    /\ "pc" \notin DOMAIN call
    /\ head = "scratch"
    /\ ownMerges < MaxOwnMerges
    /\ \E a \in 1 .. len1 - 1, b \in 0 .. len2 - 2, swap \in BOOLEAN :
          LET x == M[<<a, b>>]
              y == M[<<a - 1, b + 1>>]
          IN  /\ is_known(x) /\ is_known(y)
              /\ scratch' = IF swap THEN UserCommitOf(y.sha1, x.sha1)
                            ELSE UserCommitOf(x.sha1, y.sha1)
    /\ mergeHead' = NoCommit
    /\ worktree' = "clean"
    /\ ownMerges' = ownMerges + 1
    /\ outcome' = [outcome EXCEPT !.cmd = "user"]
    /\ UNCHANGED <<refnames, call, target, simplifies, len1, len2, conflicts, oddTrees, refs, blob, head,
                   M, goal, manual, cause, outlines, saves, loop>>

Next == Continue \/ UserResolve \/ UserCommit \/ UserOwnMerge

Spec == Init /\ [][Next]_vars

(* ------------- initiate_merge, one loop iteration at a step ------------- *)

\* the number of conflicting merges of a repository whose initiate_merge
\* calls are followed iteration by iteration
MaxFailures == 3

\* a repository after `git-imerge init` whose goal selects the
\* BlockwiseMergeFrontier, with any automerge outcome function
InitiateInit ==
    /\ len1 \in 2 .. MaxLen1
    /\ len2 \in 2 .. MaxLen2
    /\ (len1 - 1) * (len2 - 1) <= MaxArea
    /\ goal = "merge"
    /\ manual = FALSE
    /\ conflicts \in SubsetsUpTo(MergeKeys(len1, len2), MaxFailures)
    /\ oddTrees \in SubsetsUpTo(VertexCells(len1, len2), MaxOddTrees)
    /\ LET ms == MergeState_save(MergeState_init(len1, len2, goal, manual))
       IN  /\ refs = ms.refs
           /\ blob = ms.blob
           /\ M = ms.st.grid
           /\ cause = ms.st.why
    /\ scratch = NoCommit
    /\ head = "branch"
    /\ mergeHead = NoCommit
    /\ worktree = "clean"
    /\ outcome = Outcome("init", "", <<0, 0>>, "branch", NoCommit, "saved", <<0, 0>>, "")
    /\ outlines = <<>>
    /\ saves = {}
    /\ ownMerges = 0
    /\ loop = NoLoop
    /\ target = NoCommit
    /\ simplifies = 0
    /\ refnames = {}
    /\ call = <<>>

\* BlockwiseMergeFrontier.auto_expand calls initiate_merge(block) for a block
\* of iter_blocker_blocks(): up to the `while frontier` loop
InitiateCall ==
    /\ loop.pc \in {"idle", "returned"}
    /\ \E block \in {iter_blocker_blocks(map_known_frontier(M, RootBlock(len1, len2)))[k] :
                         k \in 1 .. Len(iter_blocker_blocks(
                                            map_known_frontier(M, RootBlock(len1, len2))))} :
          LET entered(found_st, top_level_frontier) ==
                  /\ loop' = [pc |-> "loop", block |-> block, top |-> top_level_frontier,
                              prev |-> top_level_frontier, frontier |-> top_level_frontier,
                              isTop |-> TRUE, failed |-> FALSE, at |-> <<0, 0>>,
                              backtracked |-> FALSE, odd |-> FALSE, st |-> found_st]
                  /\ M' = found_st.grid
                  /\ cause' = found_st.why
              from(found) == entered(found.st, BlockwiseMergeFrontier(block, found.blocks))
          IN  from(find_frontier_blocks(
                       [grid |-> M, why |-> cause, calls |-> <<>>, saves |-> {}, err |-> "",
                        touched |-> FALSE], block))
    /\ UNCHANGED <<refnames, call, target, simplifies, len1, len2, conflicts, oddTrees, refs, blob, scratch, head, mergeHead,
                   worktree, goal, manual, outcome, outlines, saves, ownMerges>>

\* one iteration of the `while frontier` loop, the `break` and the return
\* that follows it included; an exception ends the call ("raised") and the
\* command with it. loop.st.calls holds the auto_outline call of the latest
\* iteration, loop.prev the top-level frontier before it,
\* loop.backtracked tells whether an iteration of this call failed, and
\* loop.odd is the parity of the number of iterations made
InitiateIterate ==
    /\ loop.pc = "loop"
    /\ loop.frontier.blocks # <<>>
    /\ LET stepped(s) ==
               /\ loop' = [pc |-> IF s.st.err # "" THEN "raised"
                                  ELSE IF s.done THEN "returned" ELSE "loop",
                           block |-> loop.block, top |-> s.top, prev |-> loop.top,
                           frontier |-> s.frontier, isTop |-> s.isTop,
                           failed |-> s.failed, at |-> s.at,
                           backtracked |-> loop.backtracked \/ s.failed,
                           odd |-> ~loop.odd, st |-> s.st]
               /\ M' = s.st.grid
               /\ cause' = s.st.why
       IN  stepped(initiate_merge_step([loop.st EXCEPT !.calls = <<>>], loop.block,
                                       loop.top, loop.frontier, loop.isTop))
    /\ UNCHANGED <<refnames, call, target, simplifies, len1, len2, conflicts, oddTrees, refs, blob, scratch, head, mergeHead,
                   worktree, goal, manual, outcome, outlines, saves, ownMerges>>

\* `while frontier` finds the frontier empty: return top_level_frontier
InitiateReturn ==
    /\ loop.pc = "loop"
    /\ loop.frontier.blocks = <<>>
    /\ loop' = [loop EXCEPT !.pc = "returned", !.prev = loop.top, !.failed = FALSE,
                            !.at = <<0, 0>>]
    /\ UNCHANGED <<refnames, call, target, simplifies, len1, len2, conflicts, oddTrees, refs, blob, scratch, head, mergeHead,
                   worktree, M, goal, manual, outcome, cause, outlines, saves, ownMerges>>

SpecInitiate == InitiateInit /\ [][InitiateCall \/ InitiateIterate \/ InitiateReturn]_vars

(* ------------------- MergeState.read of damaged refs ------------------- *)

\* the number of boundary refs that are missing from the refs read
MaxGone == 2

\* refs/imerge/NAME as `git-imerge init` and later commands wrote them for a
\* len1 x len2 grid (any set of inner cells recorded as automatic merges),
\* after which up to MaxGone boundary refs were deleted and at most one
\* boundary ref was stored under auto/ instead of manual/
ReadInit ==
    /\ len1 \in 2 .. MaxLen1
    /\ len2 \in 2 .. MaxLen2
    /\ (len1 - 1) * (len2 - 1) <= MaxArea
    /\ goal = "merge"
    /\ manual = FALSE
    /\ conflicts = {}
    /\ oddTrees = {}
    /\ \E known \in SUBSET ((1 .. len1 - 1) \X (1 .. len2 - 1)),
          gone \in SubsetsUpTo({c \in Cells(len1, len2) : c[1] = 0 \/ c[2] = 0}, MaxGone),
          autos \in SubsetsUpTo({c \in Cells(len1, len2) : c[1] = 0 \/ c[2] = 0}, 1) :
          refs = [r \in Sources \X Cells(len1, len2) |->
                    LET c == r[2]
                    IN  IF c[1] = 0 \/ c[2] = 0
                        THEN IF c \notin gone /\ (r[1] = "auto") = (c \in autos)
                             THEN OrigCommit(c[1], c[2]) ELSE NoCommit
                        ELSE IF c \in known /\ r[1] = "auto"
                        THEN automerge(OrigCommit(c[1], 0), OrigCommit(0, c[2])).commit
                        ELSE NoCommit]
    /\ blob = MergeState_save(MergeState_init(len1, len2, goal, manual)).blob
    /\ M = <<>>
    /\ cause = <<>>
    /\ scratch = NoCommit
    /\ head = "branch"
    /\ mergeHead = NoCommit
    /\ worktree = "clean"
    /\ outcome = Outcome("init", "", <<0, 0>>, "branch", NoCommit, "saved", <<0, 0>>, "")
    /\ outlines = <<>>
    /\ saves = {}
    /\ ownMerges = 0
    /\ loop = NoLoop
    /\ target = NoCommit
    /\ simplifies = 0
    /\ refnames = {}
    /\ call = <<>>

\* read_merge_state(git, name), the first thing every command does: outcome
\* tells whether MergeState.read returned a MergeState (M is its grid,
\* outcome.incAt its len1 and len2) or how it ended instead
ReadState ==
    /\ outcome.cmd = "init"
    /\ LET loaded(rd) ==
               IF rd.ok
               THEN /\ M' = rd.grid
                    /\ outcome' = Outcome("read", "", <<rd.len1, rd.len2>>, head, NoCommit,
                                          "MergeState", <<0, 0>>, "")
               ELSE /\ M' = <<>>
                    /\ \E f \in rd.failures :
                          outcome' = Outcome("read", "", <<rd.len1, rd.len2>>, head, NoCommit,
                                            "failed", f.at, f.kind)
       IN  loaded(MergeState_read(refs, blob, len1, len2))
    /\ UNCHANGED <<refnames, call, target, simplifies, len1, len2, conflicts, oddTrees, refs, blob, scratch, head, mergeHead,
                   worktree, goal, manual, cause, outlines, saves, ownMerges, loop>>

SpecRead == ReadInit /\ [][ReadState]_vars

(* ------------------------------- claims ------------------------------- *)

\* the last command was `continue` and its auto_complete_frontier raised
\* FrontierBlockedError
RaisedFrontierBlocked == outcome.cmd = "continue" /\ outcome.result = "FrontierBlocked"

\* C1: in a non-manual merge state, whenever auto_complete_frontier raises
\* FrontierBlocked(i1, i2), the cell (i1, i2) is flagged BLOCKED, its two
\* neighbours (i1-1, i2) and (i1, i2-1) are known, and the flag was set after
\* an automatic merge failed whose two commits were exactly the commits of
\* those two neighbours.
C1_BlockedIsOnePairwiseMerge ==
    (RaisedFrontierBlocked /\ ~manual) =>
        /\ is_blocked(M[outcome.at])
        /\ is_known(M[LeftOf(outcome.at)])
        /\ is_known(M[AboveOf(outcome.at)])
        /\ cause[outcome.at] # NoCause
        /\ cause[outcome.at].pair = cause[outcome.at].held
        /\ CellOf(cause[outcome.at].pair[1]) = AboveOf(outcome.at)
        /\ CellOf(cause[outcome.at].pair[2]) = LeftOf(outcome.at)
        /\ ~automerge(cause[outcome.at].pair[1], cause[outcome.at].pair[2]).ok

\* a blockwise `continue` that outlined a block and then reported a conflict
C1_Witness ==
    /\ RaisedFrontierBlocked /\ ~manual /\ goal = "merge"
    /\ outlines # <<>>
    /\ is_blocked(M[outcome.at])
    /\ cause[outcome.at] # NoCause

\* every automatic merge succeeds and the two ways of a vertex give equal trees
ConflictFree == conflicts = {} /\ oddTrees = {}

Apex == <<len1 - 1, len2 - 1>>

\* C2: for a freshly initialized non-manual merge state of any size in which
\* every automatic merge succeeds and the two vertex computations give equal
\* trees, auto_complete_frontier returns normally (no FrontierBlocked, no user
\* merge requested) and afterwards the apex cell is known and the frontier is
\* complete.
C2_ConflictFreeCompletes ==
    (ConflictFree /\ ~manual /\ outcome.cmd = "continue") =>
        /\ outcome.result = "complete"
        /\ outcome.err = ""
        /\ scratch = NoCommit /\ mergeHead = NoCommit
        /\ is_known(M[Apex])
        /\ is_complete(M, len1, len2, manual, goal)

\* `continue` after `init` on a conflict-free 3 x 3 grid, blockwise
C2_Witness ==
    /\ ConflictFree /\ ~manual /\ goal = "merge"
    /\ len1 = 3 /\ len2 = 3
    /\ outcome.cmd = "continue" /\ outcome.result = "complete"
    /\ outcome.inc = "NoManualMergeError"
    /\ is_known(M[Apex])

\* the last `continue` asked for a merge at outcome.at and the user has since
\* committed, on the scratch branch, the merge of M[i1, i2-1] and M[i1-1, i2]
RequestedMergeCommitted ==
    /\ outcome.result = "FrontierBlocked" /\ outcome.err = ""
    /\ head = "scratch" /\ mergeHead = NoCommit /\ worktree = "clean"
    /\ scratch = UserCommitOf(M[AboveOf(outcome.at)].sha1, M[LeftOf(outcome.at)].sha1)

\* what `continue` does with the commit on the scratch branch: no error, the
\* commit recorded at the requested cell as a manual merge, the cell not
\* BLOCKED, HEAD detached, the scratch ref deleted, auto_complete_frontier run
UserMergeIncorporated ==
    /\ outcome'.inc = "incorporated"
    /\ outcome'.incAt = outcome.at
    /\ M'[outcome.at].sha1 = scratch
    /\ is_manual(M'[outcome.at])
    /\ ~is_blocked(M'[outcome.at])
    /\ outcome'.incHead = "detached"
    /\ outcome'.incScratch = NoCommit
    /\ outcome'.result \in {"complete", "FrontierBlocked"}

\* C3: for each of the three frontier variants (Blockwise, Full, Manual):
\* after FrontierBlocked(bi1, bi2) was reported and the user committed on the
\* scratch branch a two-parent merge of M[bi1, bi2-1] and M[bi1-1, bi2],
\* `continue` raises no error, records that commit at (bi1, bi2) with manual
\* provenance, leaves the cell not BLOCKED, detaches HEAD, deletes the scratch
\* ref, and then runs auto_complete_frontier.
C3_ContinueIncorporates ==
    [][(RequestedMergeCommitted /\ outcome'.cmd = "continue") => UserMergeIncorporated]_vars

\* C3 for the Blockwise and the Full frontier alone (manual = False)
C3_ContinueIncorporatesNonManual ==
    [][(~manual /\ RequestedMergeCommitted /\ outcome'.cmd = "continue")
          => UserMergeIncorporated]_vars

\* in manual mode, `continue` after the requested merge was committed ended
\* with NotABlockingCommitError, turned into a Failure by cmd_continue
C3_Witness ==
    /\ manual
    /\ outcome.cmd = "continue"
    /\ outcome.inc = "NotABlockingCommitError"
    /\ outcome.result = "failed"
    /\ outcome.incAt = <<1, 1>>
    /\ M[<<1, 1>>].sha1 = UserCommitOf(M[<<1, 0>>].sha1, M[<<0, 1>>].sha1)

\* the cells (i1, i2), i1 >= 1 and i2 >= 1, whose provenance is automatic
AutoCells ==
    {c \in DOMAIN M : c[1] >= 1 /\ c[2] >= 1 /\ is_known(M[c]) /\ ~is_manual(M[c])}

\* C4 as claimed: for every cell M[i1, i2] with i1 >= 1 and i2 >= 1 whose
\* provenance is automatic, the parent list of the recorded commit equals
\* [M[i1-1, i2], M[i1, i2-1]], in that order.
C4_ParentsAsClaimed ==
    \A c \in AutoCells :
        get_commit_parents(M[c].sha1) = <<M[LeftOf(c)].sha1, M[AboveOf(c)].sha1>>

\* C4, amended: the commit of an automatic cell (i1, i2) has two parents, the
\* first a merge made for a cell (i1, j) with j < i2 and the second a merge
\* made for a cell (k, i2) with k < i1; and as long as the user has recorded
\* no merge but the requested ones, the first is the commit at (i1, j), the
\* second the commit at (k, i2), one of the two is an adjacent neighbour
\* ((i1, i2-1) or (i1-1, i2)), and under the Full frontier (micromerges
\* only) the parents are [M[i1, i2-1], M[i1-1, i2]], in that order.
C4_AutoParents ==
    \A c \in AutoCells :
        LET parents == get_commit_parents(M[c].sha1)
        IN  /\ Len(parents) = 2
            /\ \E j \in 0 .. c[2] - 1 : CellOf(parents[1]) = <<c[1], j>>
            /\ \E k \in 0 .. c[1] - 1 : CellOf(parents[2]) = <<k, c[2]>>
            /\ ownMerges = 0 =>
                  /\ \E j \in 0 .. c[2] - 1 : parents[1] = M[<<c[1], j>>].sha1
                  /\ \E k \in 0 .. c[1] - 1 : parents[2] = M[<<k, c[2]>>].sha1
                  /\ parents[1] = M[AboveOf(c)].sha1 \/ parents[2] = M[LeftOf(c)].sha1
                  /\ goal = "full" => parents = <<M[AboveOf(c)].sha1, M[LeftOf(c)].sha1>>

\* blockwise, an edge cell of an outlined block whose first parent is not the
\* commit of (i1, i2-1), next to a cell whose parents are both adjacent
C4_Witness ==
    /\ goal = "merge"
    /\ \E c \in AutoCells :
          /\ is_known(M[AboveOf(c)])
          /\ get_commit_parents(M[c].sha1)[1] # M[AboveOf(c)].sha1
          /\ get_commit_parents(M[c].sha1)[2] = M[LeftOf(c)].sha1
    /\ \E c \in AutoCells :
          get_commit_parents(M[c].sha1) = <<M[AboveOf(c)].sha1, M[LeftOf(c)].sha1>>

\* the known cells (i1, i2) with i1 >= 1 and i2 >= 1
InnerKnown ==
    {c \in DOMAIN M : c[1] >= 1 /\ c[2] >= 1 /\ is_known(M[c])}

\* C5 as claimed: whenever a cell M[i1, i2] with i1 >= 1 and i2 >= 1 is known,
\* both M[i1-1, i2] and M[i1, i2-1] are known.
C5_NeighbourClosure ==
    \A c \in InnerKnown : is_known(M[LeftOf(c)]) /\ is_known(M[AboveOf(c)])

\* C5, amended: whenever a cell M[i1, i2] with i1 >= 1 and i2 >= 1 is known,
\* at least one of M[i1-1, i2] and M[i1, i2-1] is known; both are known when
\* the cell has manual provenance, and for every known cell when the frontier
\* is the Full or the Manual one.
C5_MonotonePath ==
    /\ \A c \in InnerKnown :
          /\ is_known(M[LeftOf(c)]) \/ is_known(M[AboveOf(c)])
          /\ is_manual(M[c]) => is_known(M[LeftOf(c)]) /\ is_known(M[AboveOf(c)])
    /\ (goal = "full" \/ manual) => C5_NeighbourClosure

\* a 3x3 block was outlined: its edges and vertex are known, its interior
\* cell (1, 1) is not
C5_Witness ==
    /\ len1 = 3 /\ len2 = 3 /\ goal = "merge" /\ outcome.cmd = "continue"
    /\ is_known(M[<<2, 1>>]) /\ is_known(M[<<1, 2>>]) /\ is_known(M[<<2, 2>>])
    /\ ~is_known(M[<<1, 1>>])

\* the cells with i1 = 0 or i2 = 0
Boundary ==
    {c \in Cells(len1, len2) : c[1] = 0 \/ c[2] = 0}

\* C6: after initialization and after every command (auto-expansion,
\* outlining, backtracking, user-merge incorporation, save), every boundary
\* cell holds the commit of its branch (the merge base at (0, 0), the i1-th
\* commit of the first ancestry at (i1, 0), the i2-th of the second at
\* (0, i2)) with manual provenance, in memory and in the refs that
\* MergeState.read reads it from.
C6_BoundaryFidelity ==
    \A c \in Boundary :
        /\ M[c].sha1 = OrigCommit(c[1], c[2])
        /\ is_manual(M[c])
        /\ ReadRecord(refs, c).sha1 = OrigCommit(c[1], c[2])
        /\ is_manual(ReadRecord(refs, c))

\* a `continue` that incorporated a user merge and went on to outline a block
C6_Witness ==
    /\ outcome.cmd = "continue" /\ outcome.inc = "incorporated"
    /\ Len(outlines) > 0
    /\ \E c \in AutoCells : TRUE
    /\ \E c \in InnerKnown : is_manual(M[c])

\* commits to record with: the user's and the one at the cell last reported
Commits ==
    {scratch, M[outcome.at].sha1}

\* C7: recording NEW_MANUAL at a cell (whatever its commit and flags)
\* replaces the cell's commit and clears NEW_AUTO; recording NEW_AUTO at a
\* cell that has any MANUAL flag changes neither commit nor flags; and after
\* save a cell with manual provenance has a manual ref pointing at its commit
\* and no auto ref, so that no cell has both an auto and a manual ref.
C7_ProvenancePrecedence ==
    /\ \A new \in Commits, flags \in SUBSET AllFlags :
          LET rec == [sha1 |-> M[outcome.incAt].sha1, flags |-> flags]
              manually == record_merge(rec, new, NEW_MANUAL)
          IN  /\ manually = [sha1 |-> new, flags |-> (flags \cup {NEW_MANUAL}) \ {NEW_AUTO}]
              /\ flags \cap MANUAL # {} => record_merge(rec, new, NEW_AUTO) = rec
    /\ \A c \in Cells(len1, len2) :
          /\ is_manual(M[c]) =>
                /\ refs[<<"manual", c>>] = M[c].sha1
                /\ refs[<<"manual", c>>] # NoCommit
                /\ refs[<<"auto", c>>] = NoCommit
          /\ refs[<<"auto", c>>] = NoCommit \/ refs[<<"manual", c>>] = NoCommit

\* a merge of the user's was recorded over a cell that held an automatic
\* merge: a neighbour's commit still has that automatic merge as a parent
C7_Witness ==
    \E c \in InnerKnown, d \in AutoCells :
        /\ is_manual(M[c])
        /\ outcome.incAt = c
        /\ refs[<<"manual", c>>] = M[c].sha1
        /\ \E k \in 1 .. 2 :
              /\ CellOf(get_commit_parents(M[d].sha1)[k]) = c
              /\ get_commit_parents(M[d].sha1)[k].by = "auto"

\* C8: for every MergeState that a command saved (at initialization, after
\* each auto_expand, after incorporating a user merge), reading the same name
\* back yields a MergeState with the same dimensions, the same commit and
\* provenance at every known cell, the same unknown cells, the same BLOCKED
\* cells, and the same tip1, tip2, goal, goalopts, manual flag and branch;
\* the MergeState a command leaves is one of those it saved.
C8_RoundTrip ==
    /\ \A s \in saves : s.after = s.before
    /\ saves # {} =>
          StateView(len1, len2, M, [blob EXCEPT !.goal = goal, !.manual = manual])
              \in {s.after : s \in saves}

\* a command that saved three different MergeStates, one of them with a
\* BLOCKED cell, a user merge and an automatic merge
C8_Witness ==
    /\ Cardinality(saves) >= 3
    /\ \E s \in saves :
          /\ s.before.blocked # {}
          /\ \E k \in s.before.known : k[1][1] >= 1 /\ k[1][2] >= 1 /\ k[3]
          /\ \E k \in s.before.known : ~k[3]

\* the auto_outline calls of the last command
OutlineCalls ==
    {outlines[k] : k \in 1 .. Len(outlines)}

\* the cell (i1, i2) of block is on its bottom edge, its right edge or its vertex
OnOutline(block, i1, i2) ==
    \/ i2 = block.len2 - 1 /\ 1 <= i1 /\ i1 <= block.len1 - 1
    \/ i1 = block.len1 - 1 /\ 1 <= i2 /\ i2 <= block.len2 - 1

\* the cell of the MergeState that is the vertex of block
VertexOf(block) ==
    <<block.s1 + block.len1 - 1, block.s2 + block.len2 - 1>>

\* C9: auto_outline is all-or-nothing.  A call that raised
\* UnexpectedMergeFailure changed no record of the grid, and the (i1, i2) it
\* carries is, in the indexes of the block, the edge or vertex cell whose
\* automerge failed, or the vertex whose two ways gave different trees.  A
\* call that returned recorded every previously unknown cell of the bottom
\* edge, the right edge and the vertex as NEW_AUTO and no other unknown cell,
\* each with a merge that succeeded, the vertex with two ways that agree.
C9_OutlineAllOrNothing ==
    \A o \in OutlineCalls :
        /\ ~o.ok =>
              /\ o.changed = {} /\ o.filled = {} /\ o.recorded = {}
              /\ OnOutline(o.block, o.at[1], o.at[2])
              /\ o.pair # <<>> =>
                    /\ ~automerge(o.pair[1], o.pair[2]).ok
                    /\ CellOf(automerge(o.pair[1], o.pair[2]).commit)
                          = <<o.block.s1 + o.at[1], o.block.s2 + o.at[2]>>
              /\ o.pair = <<>> =>
                    /\ <<o.block.s1 + o.at[1], o.block.s2 + o.at[2]>> = VertexOf(o.block)
                    /\ o.block.len1 > 2 /\ o.block.len2 > 2
                    /\ VertexOf(o.block) \in oddTrees
        /\ o.ok =>
              /\ o.filled = o.unknown
              /\ \A m \in o.recorded :
                    /\ m[2].by = "auto" /\ CellOf(m[2]) = m[1]
                    /\ m[1] # VertexOf(o.block) =>
                          automerge(m[2].parents[1], m[2].parents[2]).ok
                    /\ m[1] \in oddTrees => o.block.len1 = 2 \/ o.block.len2 = 2

\* a command in which one auto_outline failed at an edge cell that is not the
\* vertex, and a later one, of a smaller block, went through
C9_Witness ==
    \E j \in 1 .. Len(outlines), k \in 1 .. Len(outlines) :
        /\ j < k
        /\ ~outlines[j].ok
        /\ outlines[j].pair # <<>>
        /\ outlines[j].at # <<outlines[j].block.len1 - 1, outlines[j].block.len2 - 1>>
        /\ outlines[k].ok
        /\ outlines[k].filled # {}

\* C10: a successful auto_outline of a block with far corner (L1, L2)
\* changes only cells (i1, L2) with 1 <= i1 <= L1 and (L1, i2) with
\* 1 <= i2 <= L2, so every cell (i1, i2) with 1 <= i1 < L1 and 1 <= i2 < L2
\* is left unchanged; and the call attempts at most L1 + L2 automerges.
C10_OutlineFrame ==
    \A o \in OutlineCalls :
        /\ o.ok =>
              \A c \in o.changed : OnOutline(o.block, c[1] - o.block.s1, c[2] - o.block.s2)
        /\ o.n <= (o.block.len1 - 1) + (o.block.len2 - 1)

\* a 3x3 block outlined with L1 + L2 = 4 automerge attempts (the two edges and
\* the two ways of the vertex): three cells recorded, the interior cell unknown
C10_Witness ==
    \E o \in OutlineCalls :
        /\ o.ok
        /\ o.block.len1 = 3 /\ o.block.len2 = 3
        /\ o.n = 4
        /\ Cardinality(o.changed) = 3
        /\ ~is_known(M[<<o.block.s1 + 1, o.block.s2 + 1>>])

\* C11: a call of initiate_merge that is under way and keeps running ends by
\* returning its top-level frontier, and never by an exception, whatever the
\* conflicting merges and the odd vertex trees are
C11_InitiateTerminates ==
    /\ [](loop.pc # "raised")
    /\ ([]<><<TRUE>>_loop) => [](loop.pc = "loop" => <>(loop.pc = "returned"))

\* initiate_merge returned a frontier that is not empty after an outline
\* failed and the frontier was cut back
C11_Witness ==
    /\ loop.pc = "returned"
    /\ loop.backtracked
    /\ loop.top.blocks # <<>>

\* the sum over the blocks of a frontier of Block.get_area
RECURSIVE total_area(_)
total_area(blocks) ==
    IF blocks = <<>> THEN 0 ELSE get_area(Head(blocks)) + total_area(Tail(blocks))

\* the cells (i1, i2), i1 >= 1 and i2 >= 1, that lie in a block of a frontier
covered(blocks) ==
    UNION {(1 .. blocks[k].len1 - 1) \X (1 .. blocks[k].len2 - 1) : k \in 1 .. Len(blocks)}

\* C12 as stated: an iteration of initiate_merge's loop never increases the
\* total area of the top-level frontier's blocks, and an iteration whose
\* auto_outline raised UnexpectedMergeFailure decreases it
C12_TotalAreaDecreases ==
    /\ total_area(loop.top.blocks) <= total_area(loop.prev.blocks)
    /\ loop.failed => total_area(loop.top.blocks) < total_area(loop.prev.blocks)

\* C12: an iteration of initiate_merge's loop never adds a cell to the cells
\* that the top-level frontier's blocks cover, and an iteration whose
\* auto_outline raised UnexpectedMergeFailure removes the failed cell from them
C12_CoveredShrinks ==
    /\ covered(loop.top.blocks) \subseteq covered(loop.prev.blocks)
    /\ loop.failed =>
          /\ loop.at \in covered(loop.prev.blocks)
          /\ loop.at \notin covered(loop.top.blocks)

\* a failed vertex merge split a block in two overlapping blocks whose areas
\* add up to no less than the area of the block
C12_Witness ==
    /\ loop.failed
    /\ Len(loop.top.blocks) = 2
    /\ total_area(loop.top.blocks) >= total_area(loop.prev.blocks)
    /\ Cardinality(covered(loop.top.blocks)) < Cardinality(covered(loop.prev.blocks))

\* C13: the block list of the top-level frontier and of the frontier being
\* worked on (built by the constructor, by partition, or cut back by
\* remove_failure), and of the frontier that map_known_frontier constructs
\* for the grid, has no block with a zero dimension, is sorted by strictly
\* increasing len1 with strictly decreasing len2, and has no block that
\* contains another one, adjacent or not
C13_FrontierNormalized ==
    LET normalized(blocks) ==
            /\ \A k \in 1 .. Len(blocks) : blocks[k].len1 # 0 /\ blocks[k].len2 # 0
            /\ \A j, k \in 1 .. Len(blocks) :
                  j < k => blocks[j].len1 < blocks[k].len1 /\ blocks[j].len2 > blocks[k].len2
            /\ \A j, k \in 1 .. Len(blocks) :
                  j # k => ~block_contains(blocks[j], blocks[k])
    IN  /\ normalized(loop.top.blocks)
        /\ normalized(loop.frontier.blocks)
        /\ normalized(map_known_frontier(M, RootBlock(len1, len2)).blocks)

\* remove_failure cut a frontier back to two blocks, neither inside the other
C13_Witness ==
    /\ loop.failed
    /\ Len(loop.prev.blocks) = 1
    /\ Len(loop.top.blocks) = 2
    /\ loop.top.blocks[1].len1 < loop.top.blocks[2].len1

\* C14 as stated: a `continue` that directly follows a `continue` which
\* reported completion or FrontierBlocked at a cell reports the same, and
\* leaves the recorded merges, the blockers and the refs as they were
C14_ContinueIdempotent ==
    [][(/\ outcome.cmd = "continue"
        /\ outcome.result \in {"complete", "FrontierBlocked"}
        /\ outcome'.cmd = "continue")
       => /\ outcome'.result = outcome.result
          /\ outcome'.at = outcome.at
          /\ M' = M
          /\ blob'.blockers = blob.blockers
          /\ refs' = refs]_vars

\* C14, what holds: after a `continue` that reported completion the next one
\* reports completion and changes nothing; after one that reported
\* FrontierBlocked and left conflicts in the working tree the next one fails
\* with UncleanWorkTreeError, changing neither the merges, the blockers, the
\* refs, the scratch branch nor the merge in progress
C14_SecondContinue ==
    [][(/\ outcome.cmd = "continue"
        /\ outcome.result \in {"complete", "FrontierBlocked"}
        /\ outcome'.cmd = "continue")
       => /\ outcome.result = "complete" =>
                /\ outcome'.result = "complete"
                /\ M' = M /\ blob' = blob /\ refs' = refs
          /\ (outcome.result = "FrontierBlocked" /\ worktree = "conflicted") =>
                /\ outcome'.result = "failed"
                /\ outcome'.inc = "UncleanWorkTreeError"
                /\ M' = M /\ blob' = blob /\ refs' = refs
                /\ scratch' = scratch /\ mergeHead' = mergeHead /\ worktree' = worktree
          /\ (outcome.result = "FrontierBlocked" /\ ~manual) => worktree = "conflicted"]_vars

\* the second of two `continue` in a row, the first of which reported
\* FrontierBlocked, has failed on the conflicts left in the working tree
C14_Witness ==
    /\ outcome.cmd = "continue"
    /\ outcome.result = "failed"
    /\ outcome.inc = "UncleanWorkTreeError"
    /\ worktree = "conflicted"
    /\ mergeHead # NoCommit

\* C15 as stated: when a boundary ref K-0 is stored while J-0 is not, for
\* some 1 <= J < K (no 0-J missing below a stored 0-K, the merge base and
\* every stored boundary ref manual), read fails with 'Merge J-0 is missing'
\* for the first such J; likewise for 0-K and 0-J; and a boundary ref stored
\* under auto/ makes read fail
C15_MissingBoundaryReported ==
    LET stored(c) == ReadMerges(refs, c)[1] # NoCommit
        gap1 == {j \in 1 .. len1 - 1 : ~stored(<<j, 0>>) /\ \E k \in j + 1 .. len1 - 1 : stored(<<k, 0>>)}
        gap2 == {j \in 1 .. len2 - 1 : ~stored(<<0, j>>) /\ \E k \in j + 1 .. len2 - 1 : stored(<<0, k>>)}
        autos == {c \in Cells(len1, len2) :
                     (c[1] = 0 \/ c[2] = 0) /\ ReadMerges(refs, c)[2] = SAVED_AUTO}
        first(S) == CHOOSE i \in S : \A j \in S : i <= j
    IN  outcome.cmd = "read" =>
          /\ (gap1 # {} /\ gap2 = {} /\ autos = {} /\ stored(<<0, 0>>)) =>
                /\ outcome.result = "failed"
                /\ outcome.err = "is missing"
                /\ outcome.at = <<first(gap1), 0>>
          /\ (gap2 # {} /\ gap1 = {} /\ autos = {} /\ stored(<<0, 0>>)) =>
                /\ outcome.result = "failed"
                /\ outcome.err = "is missing"
                /\ outcome.at = <<0, first(gap2)>>
          /\ autos # {} => outcome.result = "failed"

\* C15, what holds: with such a gap or with a boundary ref stored under
\* auto/, read returns no MergeState; with a gap whose first missing index J
\* is at least 2 (other edge whole, boundary refs manual) it ends with
\* 'Merge J-0 is missing' (resp. 0-J) unless an inner ref lies in a column
\* (resp. row) from J on, and then with that or with 'is out of range'
C15_DamagedBoundaryFails ==
    LET stored(c) == ReadMerges(refs, c)[1] # NoCommit
        gap1 == {j \in 1 .. len1 - 1 : ~stored(<<j, 0>>) /\ \E k \in j + 1 .. len1 - 1 : stored(<<k, 0>>)}
        gap2 == {j \in 1 .. len2 - 1 : ~stored(<<0, j>>) /\ \E k \in j + 1 .. len2 - 1 : stored(<<0, k>>)}
        autos == {c \in Cells(len1, len2) :
                     (c[1] = 0 \/ c[2] = 0) /\ ReadMerges(refs, c)[2] = SAVED_AUTO}
        first(S) == CHOOSE i \in S : \A j \in S : i <= j
        inner(from1, from2) ==
            \E c \in Cells(len1, len2) :
                c[1] >= 1 /\ c[2] >= 1 /\ stored(c) /\ (c[1] >= from1 \/ c[2] >= from2)
    IN  outcome.cmd = "read" =>
          /\ (gap1 # {} \/ gap2 # {} \/ autos # {}) => outcome.result = "failed" /\ M = <<>>
          /\ (gap1 # {} /\ gap2 = {} /\ autos = {} /\ stored(<<0, 0>>) /\ first(gap1) >= 2
                /\ stored(<<0, len2 - 1>>)) =>
                /\ outcome.err \in {"is missing", "is out of range"}
                /\ outcome.err = "is missing" => outcome.at = <<first(gap1), 0>>
                /\ ~inner(first(gap1), len2) => outcome.err = "is missing"
          /\ (gap2 # {} /\ gap1 = {} /\ autos = {} /\ stored(<<0, 0>>) /\ first(gap2) >= 2
                /\ stored(<<len1 - 1, 0>>)) =>
                /\ outcome.err \in {"is missing", "is out of range"}
                /\ outcome.err = "is missing" => outcome.at = <<0, first(gap2)>>
                /\ ~inner(len1, first(gap2)) => outcome.err = "is missing"

\* read ended with the IndexError of commits1[-1]: manual/1-0 is missing
\* while manual/2-0 is stored
C15_Witness ==
    /\ outcome.cmd = "read"
    /\ outcome.err = "IndexError"
    /\ len1 >= 3
    /\ refs[<<"manual", <<1, 0>>>>] = NoCommit
    /\ refs[<<"manual", <<2, 0>>>>] # NoCommit
    /\ \A i \in 0 .. len2 - 1 : refs[<<"manual", <<0, i>>>>] # NoCommit


(* ------------------------------ simplification -------------------------- *)

\* GitRepository.get_log_message(commit): a message is told by the commit it
\* was first written for and by what was appended to it since
get_log_message(commit) ==
    IF commit.by = "commit-tree" THEN commit.msg ELSE [of |-> commit, note |-> ""]

\* GitRepository.get_author_info(commit): the author, told by the commit that
\* the author wrote
get_author_info(commit) ==
    IF commit.by = "commit-tree" THEN commit.author ELSE [of |-> commit]

\* GitRepository.commit_tree(tree, parents, msg, metadata); without metadata
\* the author is whoever runs the command.  now is the committer date: two
\* runs give the same commit only when they fall in the same second.
commit_tree(tree, parents, msg, metadata, now) ==
    [parents |-> parents, tree |-> tree, by |-> "commit-tree", msg |-> msg,
     author |-> metadata, date |-> now]

\* GitRepository.is_ancestor(commit1, commit2): they are equal or commit2 is
\* reached from commit1.  The commits of each branch are chained: <<i1, 0>>
\* on <<i1 - 1, 0>>, <<0, i2>> on <<0, i2 - 1>>.
RECURSIVE is_ancestor(_, _)
is_ancestor(commit1, commit2) ==
    LET at == commit2.tree
        up == IF commit2.by = "orig"
              THEN IF at[1] > 0 THEN {OrigCommit(at[1] - 1, 0)}
                   ELSE IF at[2] > 0 THEN {OrigCommit(0, at[2] - 1)}
                   ELSE {}
              ELSE {commit2.parents[k] : k \in 1 .. Len(commit2.parents)}
    IN  commit1 = commit2 \/ \E p \in up : is_ancestor(commit1, p)

\* _set_refname moving the branch whether or not that is a fast-forward
_set_refname_unchecked(old, commit, force) ==
    [ok |-> TRUE, err |-> "", target |-> commit]

\* MergeState._set_refname(refname, commit, force), old being the value of
\* refname: ok = FALSE stands for Failure
_set_refname(old, commit, force) ==
    IF old = NoCommit THEN [ok |-> TRUE, err |-> "", target |-> commit]
    ELSE IF ~force /\ ~is_ancestor(old, commit)
    THEN [ok |-> FALSE, err |-> "cannot be fast-forwarded", target |-> old]
    ELSE [ok |-> TRUE, err |-> "", target |-> commit]

\* MergeState.simplify_to_full
simplify_to_full(ms, old, force) ==
    IF \E c \in Cells(ms.len1, ms.len2) : c[1] >= 1 /\ c[2] >= 1 /\ ~is_known(ms.st.grid[c])
    THEN [ok |-> FALSE, err |-> "is not yet done", target |-> old]
    ELSE _set_refname(old, ms.st.grid[<<ms.len1 - 1, ms.len2 - 1>>].sha1, force)

\* MergeState.simplify_to_rebase_with_history
simplify_to_rebase_with_history(ms, old, force, now) ==
    LET i1 == ms.len1 - 1
        RECURSIVE chain(_)
        chain(i2) ==
            IF i2 = 0 THEN ms.st.grid[<<i1, 0>>].sha1
            ELSE LET orig == ms.st.grid[<<0, i2>>].sha1
                 IN  commit_tree(get_tree(ms.st.grid[<<i1, i2>>].sha1),
                                 <<chain(i2 - 1), orig>>,
                                 [get_log_message(orig) EXCEPT
                                     !.note = "(rebased-with-history from commit)"],
                                 get_author_info(orig), now)
    IN  IF \E i2 \in 1 .. ms.len2 - 1 : ~is_known(ms.st.grid[<<i1, i2>>])
        THEN [ok |-> FALSE, err |-> "is not yet done", target |-> old]
        ELSE _set_refname(old, chain(ms.len2 - 1), force)

\* MergeState.simplify_to_border
simplify_to_border(ms, old, with_history1, with_history2, force, now) ==
    LET m == ms.len1 - 1
        n == ms.len2 - 1
        note(with) == IF with THEN "(rebased-with-history from commit)"
                      ELSE "(rebased from commit)"
        RECURSIVE chain1(_)
        chain1(i2) ==
            IF i2 = 0 THEN ms.st.grid[<<m, 0>>].sha1
            ELSE LET orig == ms.st.grid[<<0, i2>>].sha1
                 IN  commit_tree(get_tree(ms.st.grid[<<m, i2>>].sha1),
                                 IF with_history2 THEN <<chain1(i2 - 1), orig>>
                                 ELSE <<chain1(i2 - 1)>>,
                                 [get_log_message(orig) EXCEPT !.note = note(with_history2)],
                                 get_author_info(orig), now)
        RECURSIVE chain2(_)
        chain2(i1) ==
            IF i1 = 0 THEN ms.st.grid[<<0, n>>].sha1
            ELSE LET orig == ms.st.grid[<<i1, 0>>].sha1
                 IN  commit_tree(get_tree(ms.st.grid[<<i1, n>>].sha1),
                                 IF with_history1 THEN <<orig, chain2(i1 - 1)>>
                                 ELSE <<chain2(i1 - 1)>>,
                                 [get_log_message(orig) EXCEPT !.note = note(with_history1)],
                                 get_author_info(orig), now)
    IN  IF \/ \E i2 \in 1 .. n : ~is_known(ms.st.grid[<<m, i2>>])
           \/ \E i1 \in 1 .. m : ~is_known(ms.st.grid[<<i1, n>>])
        THEN [ok |-> FALSE, err |-> "is not yet done", target |-> old]
        ELSE _set_refname(old,
                          commit_tree(get_tree(ms.st.grid[<<m, n>>].sha1),
                                      <<chain1(n - 1), chain2(m - 1)>>,
                                      [of |-> NoCommit,
                                       note |-> "Merge tip2 into tip1 (using imerge border)"],
                                      [of |-> NoCommit], now),
                          force)

\* create_commit_chain copying message and author from the commit whose tree
\* it takes
create_commit_chain_own_metadata(base, path, now) ==
    LET RECURSIVE chain(_, _)
        chain(k, parent) ==
            IF k > Len(path) THEN parent
            ELSE chain(k + 1, commit_tree(get_tree(path[k][1]), <<parent>>,
                                          get_log_message(path[k][1]),
                                          get_author_info(path[k][1]), now))
    IN  chain(1, base)

\* create_commit_chain that goes back to reusing after an entry it could not
\* reuse
create_commit_chain_resuming(base, path, now) ==
    LET RECURSIVE chain(_, _)
        chain(k, parent) ==
            IF k > Len(path) THEN parent
            ELSE LET commit == path[k][1]
                     metadata == path[k][2]
                 IN  IF commit = metadata /\ get_commit_parents(commit) = <<parent>>
                     THEN chain(k + 1, commit)
                     ELSE chain(k + 1,
                                commit_tree(get_tree(commit), <<parent>>,
                                            get_log_message(metadata),
                                            get_author_info(metadata), now))
    IN  chain(1, base)

\* GitRepository.create_commit_chain(base, path): path is a sequence of
\* <<commit, metadata>>
create_commit_chain(base, path, now) ==
    LET RECURSIVE chain(_, _, _)
        chain(k, parent, reusing) ==
            IF k > Len(path) THEN parent
            ELSE LET commit == path[k][1]
                     metadata == path[k][2]
                 IN  IF reusing /\ commit = metadata /\ get_commit_parents(commit) = <<parent>>
                     THEN chain(k + 1, commit, TRUE)
                     ELSE chain(k + 1,
                                commit_tree(get_tree(commit), <<parent>>,
                                            get_log_message(metadata),
                                            get_author_info(metadata), now),
                                FALSE)
    IN  chain(1, base, TRUE)

\* MergeState._simplify_to_path(refname, base, path, force): base is a cell,
\* or <<sha1>> for a commit given by its SHA-1; path is a sequence of pairs
\* of cells
_simplify_to_path(ms, old, base, path, force, now) ==
    LET to_sha1(c) == IF Len(c) = 2 THEN ms.st.grid[c].sha1 ELSE c[1]
        missing == \/ Len(base) = 2 /\ ~is_known(ms.st.grid[base])
                   \/ \E k \in 1 .. Len(path) :
                         ~is_known(ms.st.grid[path[k][1]]) \/ ~is_known(ms.st.grid[path[k][2]])
        path_sha1 == [k \in 1 .. Len(path) |-> <<to_sha1(path[k][1]), to_sha1(path[k][2])>>]
        apex == IF path = <<>> THEN to_sha1(base) ELSE path_sha1[Len(path)][1]
    IN  IF missing THEN [ok |-> FALSE, err |-> "is missing", target |-> old]
        ELSE IF ~force /\ ~(old = NoCommit \/ is_ancestor(old, apex))
        THEN [ok |-> FALSE, err |-> "without discarding history", target |-> old]
        ELSE _set_refname(old, create_commit_chain(to_sha1(base), path_sha1, now), TRUE)

\* MergeState.simplify_to_rebase
simplify_to_rebase(ms, old, force, now) ==
    _simplify_to_path(ms, old, <<ms.len1 - 1, 0>>,
                      [i2 \in 1 .. ms.len2 - 1 |-> <<<<ms.len1 - 1, i2>>, <<0, i2>>>>],
                      force, now)

\* simplify_to_merge giving the new commit the two tips in the other order
simplify_to_merge_swapped(ms, old, force, now) ==
    LET m == ms.len1 - 1
        n == ms.len2 - 1
        sha1 == commit_tree(get_tree(ms.st.grid[<<m, n>>].sha1),
                            <<ms.st.grid[<<0, n>>].sha1, ms.st.grid[<<m, 0>>].sha1>>,
                            [of |-> NoCommit, note |-> "Merge tip2 into tip1 (using imerge)"],
                            [of |-> NoCommit], now)
    IN  _set_refname(old, sha1, force)

\* MergeState.simplify_to_merge; `git commit --amend` replaces the commit by
\* one with its tree, parents and author, and its message as the editor
\* leaves it
simplify_to_merge(ms, old, force, now) ==
    LET m == ms.len1 - 1
        n == ms.len2 - 1
        sha1 == commit_tree(get_tree(ms.st.grid[<<m, n>>].sha1),
                            <<ms.st.grid[<<m, 0>>].sha1, ms.st.grid[<<0, n>>].sha1>>,
                            [of |-> NoCommit, note |-> "Merge tip2 into tip1 (using imerge)"],
                            [of |-> NoCommit], now)
        amended(r) == IF r.ok THEN [r EXCEPT !.target.msg.of = sha1] ELSE r
    IN  IF ~is_known(ms.st.grid[<<m, n>>])
        THEN [ok |-> FALSE, err |-> "is not yet done", target |-> old]
        ELSE amended(_set_refname(old, sha1, force))

\* MergeState.simplify(refname, force); simplify_to_revert is
\* simplify_to_rebase.  simplify_to_drop: goalopts is "base" for
\* {'base': start}, where start is the commit before the first commit dropped
simplify(ms, old, force, now) ==
    LET simplify_to_drop ==
            IF ms.goalopts = "null" THEN [ok |-> FALSE, err |-> "TypeError", target |-> old]
            ELSE _simplify_to_path(ms, old,
                                   <<[parents |-> <<>>, tree |-> <<0, 0, 1>>, by |-> "start"]>>,
                                   [i1 \in 1 .. ms.len1 - 1 |->
                                       <<<<i1, ms.len2 - 1>>, <<i1, 0>>>>],
                                   force, now)
    IN
    IF ms.goal = "full" THEN simplify_to_full(ms, old, force)
    ELSE IF ms.goal = "rebase" THEN simplify_to_rebase(ms, old, force, now)
    ELSE IF ms.goal = "rebase-with-history"
    THEN simplify_to_rebase_with_history(ms, old, force, now)
    ELSE IF ms.goal = "border" THEN simplify_to_border(ms, old, FALSE, FALSE, force, now)
    ELSE IF ms.goal = "border-with-history"
    THEN simplify_to_border(ms, old, FALSE, TRUE, force, now)
    ELSE IF ms.goal = "border-with-history2"
    THEN simplify_to_border(ms, old, TRUE, TRUE, force, now)
    ELSE IF ms.goal = "drop" THEN simplify_to_drop
    ELSE IF ms.goal = "revert" THEN simplify_to_rebase(ms, old, force, now)
    ELSE IF ms.goal = "merge" THEN simplify_to_merge(ms, old, force, now)
    ELSE [ok |-> FALSE, err |-> "ValueError", target |-> old]

\* MergeState.remove(git, name), g being the repository state: the scratch
\* ref, every ref under refs/imerge/NAME and the state blob are deleted
MergeState_remove(g, rf) ==
    [g |-> IF g.head = "scratch"
           THEN [g EXCEPT !.mergeHead = NoCommit, !.worktree = "clean", !.head = "detached",
                          !.scratch = NoCommit]
           ELSE [g EXCEPT !.scratch = NoCommit],
     refs |-> [r \in DOMAIN rf |-> NoCommit],
     blob |-> NoBlob]

\* the number of simplify and finish commands of a run
MaxSimplifies == 1

\* cmd_simplify, and cmd_finish (finish = TRUE), which removes the
\* incremental merge after simplifying: g is --goal, force is --force (kept
\* in the outcome); the n-th command runs in second n
cmd_simplify(finish) ==
    LET cmd == IF finish THEN "finish" ELSE "simplify"
        \* the values of --goal (ALLOWED_GOALS), "none" for no option
        OptionGoals ==
            {"none", "full", "rebase", "rebase-with-history", "border",
             "border-with-history", "border-with-history2", "merge", "drop", "revert"}
        said(force, result, err) ==
            outcome' = Outcome(cmd, IF force THEN "--force" ELSE "", <<0, 0>>, head, scratch,
                               result, <<0, 0>>, err)
        ended(result, err) == said(FALSE, result, err)
        simplified(ms, force, r) ==
            /\ target' = r.target
            /\ M' = ms.st.grid
            /\ goal' = ms.goal
            /\ manual' = ms.manual
            /\ outlines' = <<>>
            /\ saves' = ms.st.saves
            /\ said(force, IF r.ok THEN "simplified" ELSE "failed", r.err)
            /\ IF r.ok /\ finish
               THEN LET removed(rm) == /\ SetRepo(rm.g)
                                       /\ refs' = rm.refs
                                       /\ blob' = rm.blob
                    IN  removed(MergeState_remove([Repo EXCEPT !.head = "branch"], ms.refs))
               ELSE /\ refs' = ms.refs
                    /\ blob' = ms.blob
                    /\ head' = IF r.ok THEN "branch" ELSE head
                    /\ UNCHANGED <<scratch, mergeHead, worktree>>
        chosen(ms) ==
            \E force \in BOOLEAN :
                simplified(ms, force, simplify(ms, target, force, simplifies))
        loaded(rd) ==
            IF ~rd.ok
            THEN /\ \E f \in rd.failures : ended("failed", f.kind)
                 /\ UNCHANGED <<target, refs, blob, scratch, head, mergeHead, worktree,
                                M, goal, manual, outlines, saves>>
            ELSE IF ~is_complete(rd.grid, rd.len1, rd.len2, rd.blob.manual, rd.blob.goal)
            THEN /\ ended("failed", "is not yet complete")
                 /\ M' = rd.grid
                 /\ goal' = rd.blob.goal
                 /\ manual' = rd.blob.manual
                 /\ outlines' = <<>>
                 /\ saves' = {}
                 /\ UNCHANGED <<target, refs, blob, scratch, head, mergeHead, worktree>>
            ELSE \E g \in OptionGoals :
                    chosen(IF g = "none" THEN MergeState_of(rd, refs, cause)
                           ELSE MergeState_save([MergeState_of(rd, refs, cause) EXCEPT
                                                    !.goal = g]))
    IN  /\ simplifies < MaxSimplifies
        /\ simplifies' = simplifies + 1
        /\ IF worktree # "clean"
           THEN /\ ended("failed", "UncleanWorkTreeError")
                /\ UNCHANGED <<target, refs, blob, scratch, head, mergeHead, worktree,
                               M, goal, manual, outlines, saves>>
           ELSE loaded(MergeState_read(refs, blob, len1, len2))
        /\ UNCHANGED <<refnames, call, len1, len2, conflicts, oddTrees, cause, ownMerges, loop>>

\* cmd_simplify setting and saving the goal of --goal before it checks that
\* the merge is complete
Simplify_saving_first ==
    \/ cmd_simplify(FALSE)
    \/ /\ simplifies < MaxSimplifies
       /\ worktree = "clean"
       /\ \E g \in {"full", "rebase", "merge"} : blob' = [blob EXCEPT !.goal = g]
       /\ outcome' = Outcome("simplify", "", <<0, 0>>, head, scratch, "failed", <<0, 0>>,
                             "is not yet complete")
       /\ simplifies' = simplifies + 1
       /\ UNCHANGED <<refnames, call, target, len1, len2, conflicts, oddTrees, refs, scratch, head, mergeHead,
                      worktree, M, goal, manual, cause, outlines, saves, ownMerges, loop>>

Simplify == cmd_simplify(FALSE)

\* cmd_finish removing the incremental merge before it simplifies, so that
\* the merge is gone when the simplification fails
Finish_removing_first ==
    \/ cmd_simplify(TRUE)
    \/ /\ simplifies < MaxSimplifies
       /\ worktree = "clean"
       /\ target # NoCommit
       /\ refs' = [r \in DOMAIN refs |-> NoCommit]
       /\ blob' = NoBlob
       /\ scratch' = NoCommit
       /\ outcome' = Outcome("finish", "", <<0, 0>>, head, scratch, "failed", <<0, 0>>,
                             "cannot be fast-forwarded")
       /\ simplifies' = simplifies + 1
       /\ UNCHANGED <<refnames, call, target, len1, len2, conflicts, oddTrees, head, mergeHead,
                      worktree, M, goal, manual, cause, outlines, saves, ownMerges, loop>>

Finish == cmd_simplify(TRUE)

\* the number of conflicting merges of a repository that is simplified
MaxSimplifyConflicts == 1

\* the state after `git-imerge init` or `git-imerge drop` (goal "drop", with
\* goalopts), the branch being absent, at tip1 or tip2, or one commit past tip1
SimplifyInit ==
    /\ len1 \in 2 .. MaxLen1
    /\ len2 \in 2 .. MaxLen2
    /\ (len1 - 1) * (len2 - 1) <= MaxArea
    /\ goal \in {"full", "merge", "drop"}
    /\ manual = FALSE
    /\ conflicts \in SubsetsUpTo(IF goal = "full" THEN MicroKeys(len1, len2)
                                  ELSE MergeKeys(len1, len2), MaxSimplifyConflicts)
    /\ oddTrees = {}
    /\ LET ms == MergeState_save([MergeState_init(len1, len2, goal, manual) EXCEPT
                                     !.goalopts = IF goal = "drop" THEN "base" ELSE "null"])
       IN  /\ refs = ms.refs
           /\ blob = ms.blob
           /\ M = ms.st.grid
           /\ cause = ms.st.why
           /\ saves = ms.st.saves
    /\ scratch = NoCommit
    /\ head = "branch"
    /\ mergeHead = NoCommit
    /\ worktree = "clean"
    /\ outcome = Outcome("init", "", <<0, 0>>, "branch", NoCommit, "saved", <<0, 0>>, "")
    /\ outlines = <<>>
    /\ ownMerges = 0
    /\ loop = NoLoop
    /\ simplifies = 0
    /\ refnames = {}
    /\ call = <<>>
    /\ target \in {NoCommit, OrigCommit(len1 - 1, 0), OrigCommit(0, len2 - 1),
                   [parents |-> <<OrigCommit(len1 - 1, 0)>>, tree |-> <<len1 - 1, 0, 1>>,
                    by |-> "user"]}

SpecSimplify ==
    SimplifyInit /\ [][Continue \/ UserResolve \/ UserCommit \/ Simplify \/ Finish]_vars

(* ------------------------------- claim C16 ------------------------------ *)

C17_FastForwardSafety ==
    [][LET rd == MergeState_read(refs, blob, len1, len2)
           ms == [MergeState_of(rd, refs, cause) EXCEPT !.goal = goal']
           fresh == simplify(ms, NoCommit, TRUE, simplifies)
           checked == IF goal' \in {"full", "rebase", "drop", "revert"}
                      THEN rd.grid[<<len1 - 1, len2 - 1>>].sha1
                      ELSE fresh.target
       IN  (/\ outcome'.cmd \in {"simplify", "finish"}
            /\ worktree = "clean"
            /\ rd.ok
            /\ is_complete(rd.grid, rd.len1, rd.len2, rd.blob.manual, rd.blob.goal)
            /\ target # NoCommit)
           => /\ (outcome'.inc # "--force" /\ ~is_ancestor(target, checked))
                 => outcome'.result = "failed" /\ target' = target
              /\ (outcome'.inc = "--force" /\ fresh.ok)
                 => outcome'.result = "simplified" /\ target' = fresh.target]_vars

\* simplify without --force refused to rebase onto a branch that has a commit
\* the merge does not contain
C17_Witness ==
    /\ outcome.cmd = "simplify"
    /\ outcome.inc # "--force"
    /\ outcome.err = "without discarding history"
    /\ goal = "rebase"
    /\ target.by = "user"
    /\ ~is_ancestor(target, M[<<len1 - 1, len2 - 1>>].sha1)

(* ------------------------------- claim C18 ------------------------------ *)

\* C18: when simplify or finish reaches the simplification of a complete
\* merge and the branch is absent or --force is given, goal 'merge' succeeds
\* and goal 'full' succeeds if every merge of the grid is recorded; and
\* whenever goal 'merge' succeeds the branch is at a new commit (none of the
\* grid) with the tree of M[m,n] and the parents <<M[m,0], M[0,n]>>, whenever
\* goal 'full' succeeds the branch is at M[m,n]
C18_MergeAndFull ==
    [][LET rd == MergeState_read(refs, blob, len1, len2)
           apex == rd.grid[<<len1 - 1, len2 - 1>>].sha1
       IN  (/\ outcome'.cmd \in {"simplify", "finish"}
            /\ worktree = "clean"
            /\ rd.ok
            /\ is_complete(rd.grid, rd.len1, rd.len2, rd.blob.manual, rd.blob.goal))
           => /\ (/\ target = NoCommit \/ outcome'.inc = "--force"
                  /\ \/ goal' = "merge"
                     \/ goal' = "full" /\ \A c \in Cells(len1, len2) : is_known(rd.grid[c]))
                 => outcome'.result = "simplified"
              /\ (outcome'.result = "simplified" /\ goal' = "merge")
                 => /\ target'.by = "commit-tree"
                    /\ \A c \in Cells(len1, len2) : rd.grid[c].sha1 # target'
                    /\ get_tree(target') = get_tree(apex)
                    /\ get_commit_parents(target')
                          = <<rd.grid[<<len1 - 1, 0>>].sha1, rd.grid[<<0, len2 - 1>>].sha1>>
              /\ (outcome'.result = "simplified" /\ goal' = "full")
                 => target' = apex]_vars

\* finish made the merge commit of a 3x3 grid whose inner merge 1-1 was never made
C18_Witness ==
    /\ outcome.cmd = "finish"
    /\ outcome.result = "simplified"
    /\ goal = "merge"
    /\ len1 = 3 /\ len2 = 3
    /\ ~is_known(M[<<1, 1>>])
    /\ target.parents = <<OrigCommit(2, 0), OrigCommit(0, 2)>>
    /\ target.tree = M[<<2, 2>>].sha1.tree

(* ------------------------------- claim C19 ------------------------------ *)

\* C19 as stated: after a simplification to 'rebase' or 'rebase-with-history'
\* the branch is at the last of n new commits chained on M[m,0] by their
\* first parents, the i2-th with the tree of M[m,i2] and the log message and
\* author of M[0,i2]; for 'rebase' these are the only parents, for
\* 'rebase-with-history' M[0,i2] is the second parent
C19_RebaseChainAsStated ==
    LET m == len1 - 1
        n == len2 - 1
        RECURSIVE nth(_)
        nth(k) == IF k = n THEN target ELSE nth(k + 1).parents[1]
    IN  (/\ outcome.cmd \in {"simplify", "finish"}
         /\ outcome.result = "simplified"
         /\ goal \in {"rebase", "rebase-with-history"})
        => /\ nth(0) = M[<<m, 0>>].sha1
           /\ \A i2 \in 1 .. n :
                 /\ nth(i2).by = "commit-tree"
                 /\ get_commit_parents(nth(i2))
                       = IF goal = "rebase" THEN <<nth(i2 - 1)>>
                         ELSE <<nth(i2 - 1), M[<<0, i2>>].sha1>>
                 /\ get_tree(nth(i2)) = get_tree(M[<<m, i2>>].sha1)
                 /\ get_log_message(nth(i2)) = get_log_message(M[<<0, i2>>].sha1)
                 /\ get_author_info(nth(i2)) = get_author_info(M[<<0, i2>>].sha1)

\* C19 amended: the same, except that for 'rebase-with-history' the log
\* message of the i2-th commit is the log message of M[0,i2] followed by the
\* line '(rebased-with-history from commit ...)'
C19_RebaseChain ==
    LET m == len1 - 1
        n == len2 - 1
        RECURSIVE nth(_)
        nth(k) == IF k = n THEN target ELSE nth(k + 1).parents[1]
    IN  (/\ outcome.cmd \in {"simplify", "finish"}
         /\ outcome.result = "simplified"
         /\ goal \in {"rebase", "rebase-with-history"})
        => /\ nth(0) = M[<<m, 0>>].sha1
           /\ \A i2 \in 1 .. n :
                 /\ nth(i2).by = "commit-tree"
                 /\ get_commit_parents(nth(i2))
                       = IF goal = "rebase" THEN <<nth(i2 - 1)>>
                         ELSE <<nth(i2 - 1), M[<<0, i2>>].sha1>>
                 /\ get_tree(nth(i2)) = get_tree(M[<<m, i2>>].sha1)
                 /\ get_log_message(nth(i2))
                       = IF goal = "rebase" THEN get_log_message(M[<<0, i2>>].sha1)
                         ELSE [get_log_message(M[<<0, i2>>].sha1) EXCEPT
                                  !.note = "(rebased-with-history from commit)"]
                 /\ get_author_info(nth(i2)) = get_author_info(M[<<0, i2>>].sha1)

\* two commits of the second side were rebased with history on top of a
\* first side of two commits
C19_Witness ==
    /\ outcome.cmd = "simplify"
    /\ outcome.result = "simplified"
    /\ goal = "rebase-with-history"
    /\ len1 = 3 /\ len2 = 3
    /\ target.parents[2] = OrigCommit(0, 2)
    /\ target.parents[1].parents = <<OrigCommit(2, 0), OrigCommit(0, 1)>>
    /\ target.msg # get_log_message(OrigCommit(0, 2))

(* ------------------- any commit made by the user, incorporated ---------- *)

\* the user drops the merge in progress and commits something of their own
\* on the scratch branch: a commit with one parent, a merge of any two
\* commits (each one recorded in the grid, or a commit from elsewhere), or an
\* octopus merge
UserAnyCommit ==
    /\ head = "scratch"
    /\ ownMerges < MaxOwnMerges
    /\ LET elsewhere == [parents |-> <<>>, tree |-> <<0, 0, 1>>, by |-> "user"]
           P == {M[c].sha1 : c \in {d \in DOMAIN M : is_known(M[d])}} \cup {elsewhere}
           made(ps) ==
               [parents |-> ps,
                tree |-> <<Max(CellOf(ps[1])[1], CellOf(ps[Len(ps)])[1]),
                           Max(CellOf(ps[1])[2], CellOf(ps[Len(ps)])[2]), 0>>,
                by |-> "user"]
       IN  \E p \in P, q \in P, k \in 1 .. 3 :
              scratch' = made(IF k = 1 THEN <<p>>
                              ELSE IF k = 2 THEN <<p, q>>
                              ELSE <<p, q, OrigCommit(0, 0)>>)
    /\ mergeHead' = NoCommit
    /\ worktree' = "clean"
    /\ ownMerges' = ownMerges + 1
    /\ outcome' = [outcome EXCEPT !.cmd = "user"]
    /\ UNCHANGED <<refnames, call, target, simplifies, len1, len2, conflicts, oddTrees, refs, blob, head,
                   M, goal, manual, cause, outlines, saves, loop>>

SpecAnyCommit == Init /\ [][Continue \/ UserResolve \/ UserCommit \/ UserAnyCommit]_vars

(* ------------------------------- claim C20 ------------------------------ *)

\* C20: when continue incorporates a commit that the user left on the
\* scratch branch, incorporate_manual_merge accepts it if and only if it has
\* exactly two parents that are recorded in the grid at cells (a, b) and
\* (a-1, b+1), in either order; it then records, at (a, b+1) and nowhere
\* else, with NEW_MANUAL, the commit with the parent at (a, b) first and the
\* parent at (a-1, b+1) second (the user's commit itself if that was its
\* order).  Every other commit gives ManualMergeUnusableError.
C20_ManualMergeUsable ==
    [][LET rd == MergeState_read(refs, blob, len1, len2)
           parents == get_commit_parents(scratch)
           at(p) == {c \in Cells(len1, len2) : is_known(rd.grid[c]) /\ rd.grid[c].sha1 = p}
           fits == {ab \in Cells(len1, len2) :
                       /\ ab[1] >= 1 /\ ab[2] <= len2 - 2
                       /\ Len(parents) = 2
                       /\ \/ ab \in at(parents[1]) /\ <<ab[1] - 1, ab[2] + 1>> \in at(parents[2])
                          \/ ab \in at(parents[2]) /\ <<ab[1] - 1, ab[2] + 1>> \in at(parents[1])}
           im == incorporate_manual_merge(MergeState_of(rd, refs, cause), scratch)
           recorded(ab, cell, commit) ==
               /\ im.ok
               /\ im.at = cell
               /\ im.ms.st.grid[cell].sha1 = commit
               /\ NEW_MANUAL \in im.ms.st.grid[cell].flags
               /\ \A c \in Cells(len1, len2) \ {cell} : im.ms.st.grid[c] = rd.grid[c]
               /\ commit = IF parents[1] = rd.grid[ab].sha1 THEN scratch ELSE commit
               /\ outcome'.inc \in {"incorporated", "NotABlockingCommitError"}
               /\ outcome'.incAt = cell
               /\ M'[cell].sha1 = commit
               /\ is_manual(M'[cell])
       IN  (/\ outcome'.cmd = "continue"
            /\ head = "scratch" /\ mergeHead = NoCommit /\ worktree = "clean"
            /\ scratch # NoCommit
            /\ rd.ok)
           => IF fits = {}
              THEN ~im.ok /\ outcome'.inc = "ManualMergeUnusableError" /\ M' = rd.grid
              ELSE \A ab \in fits :
                      recorded(ab, <<ab[1], ab[2] + 1>>,
                               [scratch EXCEPT !.parents =
                                   <<rd.grid[ab].sha1,
                                     rd.grid[<<ab[1] - 1, ab[2] + 1>>].sha1>>])]_vars

\* a merge that the user made on their own was incorporated: it is recorded
\* at (a, b+1) with the commit at (a, b) as first and the commit at
\* (a-1, b+1) as second parent
C20_Witness ==
    /\ outcome.cmd = "continue"
    /\ outcome.inc = "incorporated"
    /\ \E a \in 1 .. len1 - 1, b \in 0 .. len2 - 2 :
          /\ outcome.incAt = <<a, b + 1>>
          /\ M[<<a, b + 1>>].sha1.by = "user"
          /\ M[<<a, b + 1>>].sha1.parents = <<M[<<a, b>>].sha1, M[<<a - 1, b + 1>>].sha1>>
          /\ ownMerges = 1

\* ---------------------------------------------------------------------------
\* several incremental merges in one repository
\*
\* Here refnames is the set of the references of the repository, each one the
\* sequence of the components of its name, head is the reference that HEAD
\* points at (<<>> when it is detached) and call is the last command with the
\* references and HEAD that it found.  Every merge has one commit on either
\* side, so that its cells are 0-0, 0-1, 1-0 and 1-1.

\* `git for-each-ref pattern`: the references that match the pattern
\* completely or from the beginning up to a slash
for_each_ref(rs, pattern) ==
    {r \in rs : Len(r) >= Len(pattern) /\ SubSeq(r, 1, Len(pattern)) = pattern}

\* `git update-ref refname value`: git refuses a reference whose name runs
\* through, or ends as the beginning of, the name of another reference
update_ref(rs, refname) ==
    IF \E r \in rs : r # refname /\ (r \in for_each_ref({r}, refname)
                                    \/ refname \in for_each_ref({refname}, r))
    THEN [ok |-> FALSE, refs |-> rs]
    ELSE [ok |-> TRUE, refs |-> rs \cup {refname}]

NamesInit ==
    /\ refnames = {<<"refs", "heads", "master">>}
    /\ head = <<"refs", "heads", "master">>
    /\ call = [cmd |-> "none", name |-> <<>>, err |-> "", refs |-> {}, head |-> <<>>]
    /\ len1 = 1 /\ len2 = 1
    /\ conflicts = {} /\ oddTrees = {} /\ refs = <<>> /\ blob = <<>>
    /\ scratch = NoCommit /\ mergeHead = NoCommit /\ worktree = "clean"
    /\ M = <<>> /\ goal = "full" /\ manual = FALSE
    /\ outcome = <<>> /\ cause = <<>> /\ outlines = <<>> /\ saves = <<>>
    /\ ownMerges = 0 /\ loop = <<>> /\ target = NoCommit /\ simplifies = 0

\* git-imerge init --name=NAME: the name has to be available, then the state
\* and the boundary commits are saved
InitName ==
    \E name \in {<<"a">>, <<"b">>, <<"a", "b">>} :
       LET prefix == <<"refs", "imerge">> \o name
           new == {prefix \o <<"state">>, prefix \o <<"auto", "0-0">>,
                   prefix \o <<"auto", "0-1">>, prefix \o <<"auto", "1-0">>}
           err == IF for_each_ref(refnames, prefix) # {} THEN "Failure: already in use"
                  ELSE IF \E r \in new : ~update_ref(refnames, r).ok
                       THEN "CalledProcessError"
                       ELSE ""
       IN  /\ call' = [cmd |-> "init", name |-> name, err |-> err,
                       refs |-> refnames, head |-> head]
           /\ refnames' = IF err = "" THEN refnames \cup new ELSE refnames
           /\ UNCHANGED <<head, target, simplifies, len1, len2, conflicts, oddTrees, refs,
                          blob, scratch, mergeHead, worktree, M, goal, manual, outcome,
                          cause, outlines, saves, ownMerges, loop>>

\* git-imerge continue --name=NAME: the state is read; then cell 1-1 is
\* merged automatically, or the merge is requested from the user on the
\* scratch reference, or the merge that the user left there is recorded
ContinueName ==
    \E name \in {<<"a">>, <<"b">>, <<"a", "b">>}, step \in {"auto", "blocked", "manual"} :
       LET prefix == <<"refs", "imerge">> \o name
           refname == <<"refs", "heads", "imerge">> \o name
           unexpected == {r \in for_each_ref(refnames, prefix) :
                             /\ r # prefix \o <<"state">>
                             /\ ~(/\ Len(r) = Len(prefix) + 2
                                  /\ r[Len(prefix) + 1] \in {"auto", "manual"})}
           known == \E source \in {"auto", "manual"} :
                       prefix \o <<source, "1-1">> \in refnames
           requested == update_ref(refnames, refname)
           err == IF prefix \o <<"state">> \notin refnames THEN "Failure: no incremental merge"
                  ELSE IF unexpected # {} THEN "Failure: Unexpected reference(s)"
                  ELSE IF known THEN ""
                  ELSE IF step = "blocked" /\ ~requested.ok THEN "CalledProcessError"
                  ELSE ""
           acts == err = "" /\ ~known
       IN  /\ step = "manual" => head = refname /\ refname \in refnames
           /\ call' = [cmd |-> "continue", name |-> name, err |-> err,
                       refs |-> refnames, head |-> head]
           /\ refnames' = IF ~acts THEN refnames
                          ELSE IF step = "auto" THEN refnames \cup {prefix \o <<"auto", "1-1">>}
                          ELSE IF step = "blocked" THEN requested.refs
                          ELSE (refnames \ {refname}) \cup {prefix \o <<"manual", "1-1">>}
           /\ head' = IF ~acts \/ step = "auto" THEN head
                      ELSE IF step = "blocked" THEN refname
                      ELSE <<>>
           /\ UNCHANGED <<target, simplifies, len1, len2, conflicts, oddTrees, refs,
                          blob, scratch, mergeHead, worktree, M, goal, manual, outcome,
                          cause, outlines, saves, ownMerges, loop>>

\* git-imerge remove --name=NAME
RemoveName ==
    \E name \in {<<"a">>, <<"b">>, <<"a", "b">>} :
       LET scratch_refname == <<"refs", "heads", "imerge">> \o name
           err == IF <<"refs", "imerge">> \o name \o <<"state">> \notin refnames
                  THEN "Failure: no incremental merge"
                  ELSE ""
       IN  /\ call' = [cmd |-> "remove", name |-> name, err |-> err,
                       refs |-> refnames, head |-> head]
           /\ head' = IF err = "" /\ head = scratch_refname THEN <<>> ELSE head
           /\ refnames' = IF err # "" THEN refnames
                          ELSE (refnames \ {scratch_refname})
                                  \ for_each_ref(refnames, <<"refs", "imerge">> \o name)
           /\ UNCHANGED <<target, simplifies, len1, len2, conflicts, oddTrees, refs,
                          blob, scratch, mergeHead, worktree, M, goal, manual, outcome,
                          cause, outlines, saves, ownMerges, loop>>

SpecNames == NamesInit /\ [][InitName \/ ContinueName \/ RemoveName]_vars

\* C21 (as stated): after remove(name) the scratch reference
\* refs/heads/imerge/<name> and every reference under refs/imerge/<name>/ are
\* gone, the name is not listed as an existing merge and is available to a
\* new init, and every reference of every other incremental merge (its state,
\* its cells, its scratch reference) is still there
C21_RemoveAsStated ==
    (call.cmd = "remove" /\ call.err = "") =>
       LET prefix == <<"refs", "imerge">> \o call.name
           own(n) == {r \in call.refs :
                         \/ r = <<"refs", "heads", "imerge">> \o n
                         \/ r = <<"refs", "imerge">> \o n \o <<"state">>
                         \/ \E source \in {"auto", "manual"}, cell \in {"0-0", "0-1", "1-0", "1-1"} :
                               r = <<"refs", "imerge">> \o n \o <<source, cell>>}
       IN  /\ <<"refs", "heads", "imerge">> \o call.name \notin refnames
           /\ for_each_ref(refnames, prefix) = {}
           /\ prefix \o <<"state">> \notin refnames
           /\ \A n \in {<<"a">>, <<"b">>, <<"a", "b">>} \ {call.name} :
                 <<"refs", "imerge">> \o n \o <<"state">> \in call.refs
                    => own(n) \subseteq refnames

\* C21 (what the code guarantees): after remove(name) the scratch reference
\* and every reference under refs/imerge/<name>/ are gone, the name is not
\* listed and is available, and exactly those references were deleted: the
\* references of a merge whose name does not begin with <name>/ are untouched
C21_Remove ==
    (call.cmd = "remove" /\ call.err = "") =>
       LET prefix == <<"refs", "imerge">> \o call.name
       IN  /\ <<"refs", "heads", "imerge">> \o call.name \notin refnames
           /\ for_each_ref(refnames, prefix) = {}
           /\ prefix \o <<"state">> \notin refnames
           /\ refnames = (call.refs \ {<<"refs", "heads", "imerge">> \o call.name})
                            \ for_each_ref(call.refs, prefix)
           /\ head = IF call.head = <<"refs", "heads", "imerge">> \o call.name
                     THEN <<>> ELSE call.head

\* merge "a" was removed while merge "a/b" existed, and the state of "a/b"
\* went with it
C21_Witness ==
    /\ call.cmd = "remove" /\ call.err = "" /\ call.name = <<"a">>
    /\ <<"refs", "imerge", "a", "b", "state">> \in call.refs
    /\ <<"refs", "imerge", "a", "b", "state">> \notin refnames
    /\ <<"refs", "heads", "imerge", "a">> \in call.refs
    /\ <<"refs", "imerge", "b", "state">> \in refnames

\* C22: in every save, every update or deletion of a cell ref comes before
\* the write of the state blob, which is written exactly once, as the last
\* write; after the save no cell has a NEW_AUTO or NEW_MANUAL flag, and every
\* known cell has exactly one ref, the one of its provenance (manual or auto),
\* which points at the commit of the cell
C22_SaveOrdering ==
    \A s \in saves :
       /\ Len(s.writes) >= 1
       /\ s.writes[Len(s.writes)] = <<"write", "state", <<>>>>
       /\ \A k \in 1 .. Len(s.writes) - 1 :
             /\ s.writes[k][1] \in {"update", "delete"}
             /\ s.writes[k][2] \in Sources
             /\ s.writes[k][3] \in Cells(s.before.len1, s.before.len2)
       /\ s.new = {}
       /\ \A k \in s.before.known :
             /\ s.refs[<<IF k[3] THEN "manual" ELSE "auto", k[1]>>] = k[2]
             /\ s.refs[<<IF k[3] THEN "auto" ELSE "manual", k[1]>>] = NoCommit

\* a save that recorded a new automatic merge next to a user merge, and a
\* save that rewrote the state blob without a cell to write
C22_Witness ==
    /\ \E s \in saves :
          /\ Len(s.writes) >= 2
          /\ \E k \in 1 .. Len(s.writes) - 1 : s.writes[k][1] = "update" /\ s.writes[k][2] = "auto"
          /\ \E k \in s.before.known : k[3] /\ k[1][1] >= 1 /\ k[1][2] >= 1
    /\ \E s \in saves : Len(s.writes) = 1 /\ s.before.blocked # {}

\* C23: auto_complete_frontier saves after every auto_expand, however it
\* ended; so after a command whose auto_complete_frontier raised
\* FrontierBlocked (or returned), what MergeState.read builds from the refs
\* and the state blob is the grid in memory: the same known cells with the
\* same commits and provenance and the same BLOCKED cells, the cell that
\* the automatic merge failed on among them
C23_SavedAfterEveryExpand ==
    (outcome.cmd = "continue" /\ outcome.result \in {"FrontierBlocked", "complete"}) =>
       /\ saves # {}
       /\ ReadView(refs, blob, len1, len2)
             = StateView(len1, len2, M, [blob EXCEPT !.goal = goal, !.manual = manual])
       /\ blob.blockers = {c \in AllCells : c \in Cells(len1, len2) /\ is_blocked(M[c])}
       /\ \A c \in Cells(len1, len2) :
             /\ is_known(M[c]) =>
                   refs[<<IF is_manual(M[c]) THEN "manual" ELSE "auto", c>>] = M[c].sha1
             /\ ~is_known(M[c]) => \A source \in Sources : refs[<<source, c>>] = NoCommit
       /\ (outcome.result = "FrontierBlocked" /\ ~manual) =>
             /\ is_blocked(M[outcome.at])
             /\ outcome.at \in blob.blockers

\* FrontierBlocked reached the caller after an auto_expand that had merged a
\* cell, at a cell that was not BLOCKED when the command began
C23_Witness ==
    /\ outcome.cmd = "continue" /\ outcome.result = "FrontierBlocked"
    /\ ~manual
    /\ is_blocked(M[outcome.at])
    /\ \E s \in saves : outcome.at \notin s.before.blocked
    /\ \E s \in saves : \E k \in 1 .. Len(s.writes) : s.writes[k][1] = "update"


\* ---------------------------------------------------------------------------
\* functions called on their own
\*
\* call is the call made: the function, its arguments, whether it returned
\* and what it returned.

MaxHi == 4
MaxSide == 4
MaxChain == 3

\* find_first_false(f, lo, hi) with every f over 0 .. MaxHi - 1 and
\* 0 <= lo <= hi <= MaxHi; find_frontier_blocks(block) for the block of a
\* merge just initialized, of up to MaxSide commits a side, where the direct
\* merge of (i1, 0) and (0, i2) conflicts for the pairs of any set;
\* create_commit_chain(base, path) for every path of up to MaxChain entries
\* <<commit, metadata>>, the commits taken from a chain c1, c2, c3 on top of
\* a base b, a second commit d2 on top of c1, a commit o from elsewhere and
\* a commit e2 on top of the commit that the call itself makes of <<c1, o>>
\* on b; the metadata is the commit itself or o
PureInit ==
    /\ \/ /\ \E f \in [0 .. MaxHi - 1 -> BOOLEAN], lo \in 0 .. MaxHi, hi \in 0 .. MaxHi :
                /\ lo <= hi
                /\ call = [fn |-> "find_first_false", f |-> f, lo |-> lo, hi |-> hi,
                           done |-> FALSE, ret |-> 0]
          /\ len1 = 1 /\ len2 = 1
          /\ conflicts = {}
       \/ /\ call = [fn |-> "find_frontier_blocks", done |-> FALSE,
                     ret |-> [blocks |-> <<>>, blocked |-> {}]]
          /\ len1 \in 2 .. MaxSide /\ len2 \in 2 .. MaxSide
          /\ \E failing \in SUBSET ((1 .. len1 - 1) \X (1 .. len2 - 1)) :
                conflicts = {<<<<c[1], 0>>, <<0, c[2]>>>> : c \in failing}
       \/ /\ LET b == OrigCommit(0, 0)
                  o == [parents |-> <<>>, tree |-> <<0, 0, 1>>, by |-> "user"]
                  c1 == [parents |-> <<b>>, tree |-> <<1, 0, 0>>, by |-> "user"]
                  c2 == [parents |-> <<c1>>, tree |-> <<2, 0, 0>>, by |-> "user"]
                  c3 == [parents |-> <<c2>>, tree |-> <<3, 0, 0>>, by |-> "user"]
                  d2 == [parents |-> <<c1>>, tree |-> <<2, 0, 1>>, by |-> "user"]
                  e2 == [parents |-> <<commit_tree(get_tree(c1), <<b>>, get_log_message(o),
                                                   get_author_info(o), 1)>>,
                         tree |-> <<2, 0, 0>>, by |-> "user"]
                  entries == {<<c, c>> : c \in {c1, c2, c3, d2, e2, o}} \cup
                             {<<c, o>> : c \in {c1, c2, c3, d2}}
              IN  \E n \in 0 .. MaxChain, base \in {b, c1} :
                     \E path \in [1 .. n -> entries] :
                        call = [fn |-> "create_commit_chain", base |-> base, path |-> path,
                                done |-> FALSE, ret |-> NoCommit]
          /\ len1 = 1 /\ len2 = 1
          /\ conflicts = {}
    /\ M = MergeState_init(len1, len2, "merge", FALSE).st.grid
    /\ refnames = {} /\ head = "branch"
    /\ oddTrees = {} /\ refs = <<>> /\ blob = <<>>
    /\ scratch = NoCommit /\ mergeHead = NoCommit /\ worktree = "clean"
    /\ goal = "merge" /\ manual = FALSE
    /\ outcome = <<>> /\ cause = <<>> /\ outlines = <<>> /\ saves = <<>>
    /\ ownMerges = 0 /\ loop = <<>> /\ target = NoCommit /\ simplifies = 0

PureCall ==
    /\ ~call.done \/ call.fn = "find_frontier_blocks"
    /\ \E i1 \in 1 .. MaxSide - 1, i2 \in 1 .. MaxSide - 1 :
          call' = IF call.fn = "find_first_false"
                  THEN [call EXCEPT !.done = TRUE,
                                    !.ret = find_first_false(call.f, call.lo, call.hi)]
                  ELSE IF call.fn = "create_commit_chain"
                  THEN [call EXCEPT !.done = TRUE,
                                    !.ret = create_commit_chain(call.base, call.path, 1)]
                  ELSE IF call.done
                  THEN \* remove_failure(i1, i2) on the frontier of the blocks found
                       LET frontier == BlockwiseMergeFrontier(RootBlock(len1, len2),
                                                              call.ret.blocks)
                       IN  [fn |-> "remove_failure", frontier |-> frontier,
                            i1 |-> Min(i1, len1 - 1), i2 |-> Min(i2, len2 - 1), done |-> TRUE,
                            ret |-> remove_failure(frontier, Min(i1, len1 - 1),
                                                   Min(i2, len2 - 1))]
                  ELSE LET r == find_frontier_blocks(
                                    MergeState_init(len1, len2, goal, manual).st,
                                    RootBlock(len1, len2))
                       IN  [call EXCEPT !.done = TRUE,
                                        !.ret = [blocks |-> r.blocks,
                                                 blocked |-> {c \in AllCells :
                                                                 /\ c \in Cells(len1, len2)
                                                                 /\ is_blocked(r.st.grid[c])}]]
    /\ UNCHANGED <<refnames, head, target, simplifies, len1, len2, conflicts, oddTrees, refs,
                   blob, scratch, mergeHead, worktree, M, goal, manual, outcome,
                   cause, outlines, saves, ownMerges, loop>>

SpecPure == PureInit /\ [][PureCall]_vars

Autofill_not_restoring ==
    LET completed(ac) ==
            /\ SetMergeState(ac.ms)
            /\ SetRepo(IF ac.ms.st.touched THEN [Repo EXCEPT !.head = "detached"] ELSE Repo)
            /\ outcome' = Outcome("autofill", "", <<0, 0>>, head, scratch,
                                  IF ac.result = "FrontierBlocked" THEN "Failure" ELSE ac.result,
                                  ac.at, ac.ms.st.err)
        loaded(rd) ==
            /\ rd.ok
            /\ completed(auto_complete_frontier(MergeState_of(rd, refs, cause)))
    IN  /\ IF worktree # "clean"
           THEN /\ outcome' = Outcome("autofill", "", <<0, 0>>, head, scratch,
                                      "UncleanWorkTreeError", <<0, 0>>, "")
                /\ UNCHANGED <<refs, blob, M, goal, manual, cause, outlines, saves,
                               scratch, head, mergeHead, worktree>>
           ELSE loaded(MergeState_read(refs, blob, len1, len2))
        /\ UNCHANGED <<refnames, call, target, simplifies, len1, len2, conflicts, oddTrees,
                       ownMerges, loop>>

\* cmd_autofill: require a clean work tree, read the state and complete the
\* frontier inside `with git.temporary_head(...)`, whose __exit__ points HEAD
\* back at the reference it was on (restore_head: symbolic-ref, then
\* reset --hard) unless HEAD was detached; FrontierBlockedError is turned
\* into a Failure
Autofill ==
    LET head_name == head
        restore_head(g) ==
            IF head_name # "detached"
            THEN [g EXCEPT !.head = head_name, !.mergeHead = NoCommit, !.worktree = "clean"]
            ELSE g
        completed(ac) ==
            /\ SetMergeState(ac.ms)
            /\ SetRepo(restore_head(IF ac.ms.st.touched THEN [Repo EXCEPT !.head = "detached"]
                                    ELSE Repo))
            /\ outcome' = Outcome("autofill", "", <<0, 0>>, head, scratch,
                                  IF ac.result = "FrontierBlocked" THEN "Failure" ELSE ac.result,
                                  ac.at, ac.ms.st.err)
        loaded(rd) ==
            /\ rd.ok
            /\ completed(auto_complete_frontier(MergeState_of(rd, refs, cause)))
    IN  /\ IF worktree # "clean"
           THEN /\ outcome' = Outcome("autofill", "", <<0, 0>>, head, scratch,
                                      "UncleanWorkTreeError", <<0, 0>>, "")
                /\ UNCHANGED <<refs, blob, M, goal, manual, cause, outlines, saves,
                               scratch, head, mergeHead, worktree>>
           ELSE loaded(MergeState_read(refs, blob, len1, len2))
        /\ UNCHANGED <<refnames, call, target, simplifies, len1, len2, conflicts, oddTrees,
                       ownMerges, loop>>

SpecAutofill == Init /\ [][Continue \/ UserResolve \/ UserCommit \/ Autofill]_vars

\* C25: when autofill is entered with HEAD a symbolic ref to a branch (the
\* user's branch or the scratch branch), HEAD is a symbolic ref to the same
\* branch when autofill ends, whether auto_complete_frontier returned,
\* raised FrontierBlocked or failed otherwise
C25_TemporaryHead ==
    [][(outcome'.cmd = "autofill" /\ head # "detached") => head' = head]_vars

\* autofill, entered on the user's branch, made automatic merges, was blocked
\* and left HEAD on the branch
C25_Witness ==
    /\ outcome.cmd = "autofill"
    /\ outcome.result = "Failure"
    /\ outcome.incHead = "branch" /\ head = "branch"
    /\ \E s \in saves : \E k \in 1 .. Len(s.writes) : s.writes[k][1] = "update"


\* C26: for a block whose mergeability is monotone (if (i1, i2) is mergeable
\* then so is every (j1, j2) with 1 <= j1 <= i1, 1 <= j2 <= i2) and whose
\* cell (1, 1) is not blocked, find_frontier_blocks yields exactly the maximal
\* mergeable rectangles: every block [:a, :b] yielded has (a-1, b-1)
\* mergeable, every mergeable cell lies in a block yielded, the corners
\* (a-1, b-1) of the blocks are exactly the mergeable cells with no mergeable
\* cell to their right or below, and the blocks come with strictly
\* increasing len1 and strictly decreasing len2
C26_MaximalRectangles ==
    (call.fn = "find_frontier_blocks" /\ call.done) =>
       LET mergeable(i1, i2) == <<<<i1, 0>>, <<0, i2>>>> \notin conflicts
           inner == (1 .. len1 - 1) \X (1 .. len2 - 1)
           monotone == \A c \in inner, d \in inner :
                          (mergeable(c[1], c[2]) /\ d[1] <= c[1] /\ d[2] <= c[2])
                             => mergeable(d[1], d[2])
           blocks == call.ret.blocks
           maximal == {c \in inner : /\ mergeable(c[1], c[2])
                                     /\ (c[1] + 1 < len1 => ~mergeable(c[1] + 1, c[2]))
                                     /\ (c[2] + 1 < len2 => ~mergeable(c[1], c[2] + 1))}
       IN  monotone =>
              /\ \A k \in 1 .. Len(blocks) :
                    /\ blocks[k].s1 = 0 /\ blocks[k].s2 = 0
                    /\ blocks[k].len1 \in 2 .. len1 /\ blocks[k].len2 \in 2 .. len2
                    /\ mergeable(blocks[k].len1 - 1, blocks[k].len2 - 1)
              /\ \A c \in inner :
                    mergeable(c[1], c[2]) =>
                       \E k \in 1 .. Len(blocks) : c[1] < blocks[k].len1 /\ c[2] < blocks[k].len2
              /\ {<<blocks[k].len1 - 1, blocks[k].len2 - 1>> : k \in 1 .. Len(blocks)} = maximal
              /\ \A k \in 1 .. Len(blocks) - 1 :
                    /\ blocks[k].len1 < blocks[k + 1].len1
                    /\ blocks[k].len2 > blocks[k + 1].len2

\* a staircase of three steps: [:2, :4], [:3, :3] and [:4, :2] were yielded
C26_Witness ==
    /\ call.fn = "find_frontier_blocks" /\ call.done
    /\ len1 = 4 /\ len2 = 4
    /\ conflicts = {<<<<c[1], 0>>, <<0, c[2]>>>> : c \in {<<2, 3>>, <<3, 2>>, <<3, 3>>}}
    /\ call.ret.blocks = <<Slice(RootBlock(4, 4), 0, 2, 0, 4), Slice(RootBlock(4, 4), 0, 3, 0, 3),
                           Slice(RootBlock(4, 4), 0, 4, 0, 2)>>


\* C27: remove_failure(i1, i2) replaces every block B of the frontier with
\* i1 < B.len1 and i2 < B.len2 by B[:i1, :] (if i1 > 1) and B[:, :i2] (if
\* i2 > 1), keeps the other blocks, and normalizes the result; afterwards no
\* block contains the cell (i1, i2), and every cell in a block afterwards
\* was in a block before (the merges covered afterwards are those covered
\* before except the ones at or beyond (i1, i2) in both directions)
C27_RemoveFailure ==
    (call.fn = "remove_failure" /\ call.done) =>
       LET old == call.frontier.blocks
           new == call.ret.blocks
           hit(b) == call.i1 < b.len1 /\ call.i2 < b.len2
           pieces(b) ==
               IF hit(b)
               THEN (IF call.i1 > 1 THEN <<[b EXCEPT !.len1 = call.i1]>> ELSE <<>>) \o
                    (IF call.i2 > 1 THEN <<[b EXCEPT !.len2 = call.i2]>> ELSE <<>>)
               ELSE <<b>>
           RECURSIVE replaced(_)
           replaced(k) == IF k > Len(old) THEN <<>>
                          ELSE pieces(old[k]) \o replaced(k + 1)
           inBlocks(blocks) == {c \in Cells(len1, len2) :
                                  \E k \in 1 .. Len(blocks) :
                                     c[1] < blocks[k].len1 /\ c[2] < blocks[k].len2}
           merges(blocks) == {c \in inBlocks(blocks) : c[1] >= 1 /\ c[2] >= 1}
       IN  /\ new = IF \E k \in 1 .. Len(old) : hit(old[k])
                      THEN _normalized_blocks(replaced(1))
                      ELSE old
           /\ call.ret.block = call.frontier.block
           /\ <<call.i1, call.i2>> \notin inBlocks(new)
           /\ inBlocks(new) \subseteq inBlocks(old)
           /\ merges(new) = {c \in merges(old) : c[1] < call.i1 \/ c[2] < call.i2}
           /\ \A k \in 1 .. Len(new) - 1 :
                 new[k].len1 < new[k + 1].len1 /\ new[k].len2 > new[k + 1].len2

\* of a frontier of two blocks one was cut into two and the other kept, and
\* the normalization dropped one of the three
C27_Witness ==
    /\ call.fn = "remove_failure" /\ call.done
    /\ Len(call.frontier.blocks) = 2
    /\ \E k \in 1 .. 2 : ~(call.i1 < call.frontier.blocks[k].len1
                           /\ call.i2 < call.frontier.blocks[k].len2)
    /\ \E k \in 1 .. 2 : call.i1 < call.frontier.blocks[k].len1
                         /\ call.i2 < call.frontier.blocks[k].len2
    /\ call.i1 > 1 /\ call.i2 > 1
    /\ Len(call.ret.blocks) = 2


\* C28: FullMergeFrontier.auto_expand goes through the columns i1 = 1, 2, ...
\* and in each column through the rows i2 = 1, 2, ...; a cell whose
\* micromerge fails, or that is BLOCKED and unknown, ends its column and limits
\* the later columns to the rows above it; the call ends with BlockComplete
\* if it met no blocker and else with FrontierBlocked for the first blocker
\* met, the one with the smallest i1.  So after a continue with goal full
\* every unknown cell whose two neighbours are known is BLOCKED, there is at
\* most one of them in a column, the known cells of a column are its rows
\* above a height that does not grow from a column to the next, the command
\* ends complete (every cell known) exactly when there is none, and else
\* FrontierBlocked names the one with the smallest i1
C28_FullExpand ==
    (outcome.cmd = "continue" /\ goal = "full" /\ ~manual /\ outcome.result # "failed") =>
       LET inner == (1 .. len1 - 1) \X (1 .. len2 - 1)
           blockers == {c \in inner : /\ ~is_known(M[c])
                                      /\ is_known(M[AboveOf(c)])
                                      /\ is_known(M[LeftOf(c)])}
           height(i1) == Cardinality({i2 \in 0 .. len2 - 1 : is_known(M[<<i1, i2>>])})
       IN  /\ outcome.result \in {"complete", "FrontierBlocked"}
           /\ outcome.err = ""
           /\ \A c \in blockers : is_blocked(M[c])
           /\ \A c \in inner : is_known(M[c]) <=> c[2] < height(c[1])
           /\ \A i1 \in 1 .. len1 - 1 : height(i1) <= height(i1 - 1)
           /\ outcome.result = "complete" <=> blockers = {}
           /\ outcome.result = "complete" => \A c \in inner : is_known(M[c])
           /\ outcome.result = "FrontierBlocked" =>
                 /\ outcome.at \in blockers
                 /\ \A c \in blockers : c # outcome.at => outcome.at[1] < c[1]

\* two columns ended at a blocker, the second one higher up than the first,
\* and the first one was reported
C28_Witness ==
    /\ outcome.cmd = "continue" /\ goal = "full" /\ ~manual
    /\ outcome.result = "FrontierBlocked"
    /\ \E c \in (1 .. len1 - 1) \X (1 .. len2 - 1) :
          /\ c[1] > outcome.at[1] /\ c[2] < outcome.at[2]
          /\ is_blocked(M[c]) /\ ~is_known(M[c])
          /\ is_known(M[AboveOf(c)]) /\ is_known(M[LeftOf(c)])
    /\ \E s \in saves : \E k \in 1 .. Len(s.writes) : s.writes[k][1] = "update"


\* C29: with goal full, at every call of auto_fill_micromerge(i1, i2) that
\* FullMergeFrontier.auto_expand makes the cell (i1, i2) is unknown and the
\* cells (i1-1, i2) and (i1, i2-1) are known, so that no command ends with
\* an AssertionError: not after columns were cut short by blockers and not
\* after merges of the user were incorporated; the known cells always have
\* their two neighbours known
C29_MicromergeAssertions ==
    (goal = "full" /\ ~manual) =>
       /\ outcome.err # "AssertionError"
       /\ outcome.result # "error"
       /\ \A c \in (1 .. len1 - 1) \X (1 .. len2 - 1) :
             is_known(M[c]) => is_known(M[AboveOf(c)]) /\ is_known(M[LeftOf(c)])

\* after a blocker had cut the columns short and the merge of the user was
\* incorporated at it, auto_expand made further micromerges and met the next
\* blocker
C29_Witness ==
    /\ goal = "full" /\ ~manual
    /\ outcome.cmd = "continue" /\ outcome.inc = "incorporated"
    /\ outcome.result = "FrontierBlocked"
    /\ outcome.incAt[1] < outcome.at[1]
    /\ \E c \in (1 .. len1 - 1) \X (1 .. len2 - 1) :
          is_known(M[c]) /\ ~is_manual(M[c]) /\ c[1] > outcome.incAt[1]
    /\ \E s \in saves : \E k \in 1 .. Len(s.writes) : s.writes[k][1] = "update" /\ s.writes[k][2] = "auto"


\* C30: with --manual no automatic merge is attempted and no cell gets an
\* automatic merge: every merge recorded is a commit of the user with manual
\* provenance, no cell is BLOCKED and no auto ref is written; auto_expand
\* raises FrontierBlocked for the first unknown cell with i1 the outer and i2
\* the inner order, whose neighbours (i1-1, i2) and (i1, i2-1) are known, and
\* BlockComplete only when every cell is known
C30_ManualMode ==
    manual =>
       LET inner == (1 .. len1 - 1) \X (1 .. len2 - 1)
           unknown == {c \in inner : ~is_known(M[c])}
       IN  /\ \A c \in inner :
                 /\ ~is_blocked(M[c])
                 /\ is_known(M[c]) => is_manual(M[c]) /\ M[c].sha1.by = "user"
                 /\ refs[<<"auto", c>>] = NoCommit
           /\ \A s \in saves : \A k \in 1 .. Len(s.writes) : s.writes[k][2] # "auto"
           /\ (outcome.cmd = "continue" /\ outcome.result # "failed") =>
                 /\ outcome.result \in {"FrontierBlocked", "complete"}
                 /\ outcome.result = "complete" <=> unknown = {}
                 /\ outcome.result = "FrontierBlocked" =>
                       /\ outcome.at \in unknown
                       /\ \A c \in unknown :
                             outcome.at[1] < c[1]
                                \/ (outcome.at[1] = c[1] /\ outcome.at[2] <= c[2])
                       /\ is_known(M[LeftOf(outcome.at)])
                       /\ is_known(M[AboveOf(outcome.at)])
                       /\ outcome.err = ""

\* with --manual, after the user had merged (1, 1), the merge of (1, 2) was
\* requested while (2, 1) was unknown as well
C30_Witness ==
    /\ manual
    /\ outcome.cmd = "continue" /\ outcome.result = "FrontierBlocked"
    /\ outcome.at = <<1, 2>>
    /\ is_known(M[<<1, 1>>]) /\ is_manual(M[<<1, 1>>])
    /\ len1 >= 3 /\ ~is_known(M[<<2, 1>>])
    /\ head = "scratch"


(* ------------------------------- claim C31 ------------------------------ *)

\* C31: when incorporate_user_merge raises ManualMergeUnusableError (the
\* commit on the scratch branch is not a two-parent merge of the commits of
\* two adjacent known cells), no cell record and no blocker flag has changed,
\* nothing was saved (every ref and the state blob are as before), HEAD is
\* still on the scratch branch and the scratch ref still exists with the
\* user's commit
C31_UnusableLeavesAll ==
    [][LET rd == MergeState_read(refs, blob, len1, len2)
       IN  (outcome'.cmd = "continue" /\ outcome'.inc = "ManualMergeUnusableError")
           => /\ rd.ok
              /\ M' = rd.grid
              /\ \A c \in Cells(len1, len2) : is_blocked(M'[c]) <=> c \in blob.blockers
              /\ saves' = {}
              /\ refs' = refs
              /\ blob' = blob
              /\ head = "scratch" /\ head' = "scratch"
              /\ scratch' # NoCommit
              /\ scratch' = scratch
              /\ mergeHead' = NoCommit /\ worktree' = "clean"
              /\ outcome'.result = "failed"]_vars

\* a continue that found an unusable commit on the scratch branch (a commit
\* with one parent, a merge of cells that are not adjacent, an octopus)
C31_Witness ==
    /\ outcome.cmd = "continue"
    /\ outcome.inc = "ManualMergeUnusableError"
    /\ head = "scratch"
    /\ scratch # NoCommit
    /\ Len(scratch.parents) = 2
    /\ ownMerges = 1


(* ------------------------------- claim C32 ------------------------------ *)

\* the user leaves the scratch branch or comes back to it: a merge in
\* progress is given up (`git merge --abort`), then `git checkout BRANCH`,
\* `git checkout --detach` or `git checkout imerge/NAME`; call keeps what
\* the user left behind
UserCheckout ==
    /\ \E h \in {"branch", "detached", "scratch"} \ {head} :
          /\ h = "scratch" => scratch # NoCommit
          /\ head' = h
    /\ mergeHead' = NoCommit
    /\ worktree' = "clean"
    /\ outcome' = [outcome EXCEPT !.cmd = "user"]
    /\ call' = [cmd |-> "checkout", from |-> head, scratch |-> scratch]
    /\ UNCHANGED <<refnames, target, simplifies, len1, len2, conflicts, oddTrees, refs, blob, scratch,
                   M, goal, manual, cause, outlines, saves, ownMerges, loop>>

SpecReconcile == Init /\ [][Continue \/ UserResolve \/ UserCommit \/ UserCheckout]_vars

\* C32 as stated: whenever the scratch ref exists and is checked out,
\* continue incorporates its commit and deletes the ref
C32_CheckedOutAlwaysIncorporated ==
    [][(outcome'.cmd = "continue" /\ scratch # NoCommit /\ head = "scratch")
       => /\ outcome'.inc \in {"incorporated", "NotABlockingCommitError"}
          /\ outcome'.incScratch = NoCommit]_vars

\* C32: what continue does with the scratch ref before auto-completion.
\* The ref exists and is checked out: a staged merge in progress is
\* committed; with unstaged changes continue fails, and with a commit that
\* is not usable it fails, the ref left in place; otherwise the commit at
\* HEAD is recorded as the user's merge and the ref is deleted.  The ref
\* exists and another branch is checked out: if its commit is recorded in
\* the grid the ref is deleted and continue goes on as without a manual
\* merge, otherwise continue fails and nothing changes.  There is no such
\* ref, or HEAD is detached: nothing is incorporated and no ref changes
\* before auto-completion starts.
C32_Reconciliation ==
    [][LET rd == MergeState_read(refs, blob, len1, len2)
           ms == MergeState_of(rd, refs, cause)
           commit == IF mergeHead # NoCommit THEN UserCommitOf(scratch, mergeHead) ELSE scratch
           recorded == \E c \in Cells(len1, len2) :
                          is_known(rd.grid[c]) /\ rd.grid[c].sha1 = scratch
           unclean == mergeHead # NoCommit /\ worktree = "conflicted"
           untouched == /\ refs' = refs /\ blob' = blob /\ M' = rd.grid
                        /\ head' = head
                        /\ outcome'.result = "failed"
           \* auto-completion started from the state read, no ref changed
           asWithout(ac) ==
               /\ outcome'.inc = "NoManualMergeError"
               /\ outcome'.incHead = head
               /\ outcome'.result = ac.result
               /\ M' = ac.ms.st.grid
               /\ refs' = ac.ms.refs
               /\ saves' = ac.ms.st.saves
           checkedOut(im) ==
               IF unclean
               THEN /\ outcome'.inc = "UncleanWorkTreeError"
                    /\ untouched /\ scratch' = scratch /\ mergeHead' = mergeHead
               ELSE IF ~im.ok
               THEN /\ outcome'.inc = "ManualMergeUnusableError"
                    /\ untouched /\ scratch' = commit
               ELSE /\ outcome'.inc \in {"incorporated", "NotABlockingCommitError"}
                    /\ outcome'.incAt = im.at
                    /\ outcome'.incScratch = NoCommit
                    /\ outcome'.incHead = "detached"
                    /\ \E s \in saves' :
                          /\ <<im.at, im.ms.st.grid[im.at].sha1, TRUE>> \in s.before.known
                          /\ s.refs[<<"manual", im.at>>] = im.ms.st.grid[im.at].sha1
                    /\ im.ms.st.grid[im.at].sha1.tree = commit.tree
       IN  (outcome'.cmd = "continue" /\ rd.ok)
           => IF scratch = NoCommit \/ head = "detached"
              THEN /\ outcome'.incScratch = scratch
                   /\ asWithout(auto_complete_frontier(ms))
              ELSE IF head = "scratch"
              THEN checkedOut(incorporate_manual_merge(ms, commit))
              ELSE IF recorded
              THEN /\ outcome'.incScratch = NoCommit
                   /\ asWithout(auto_complete_frontier(ms))
              ELSE /\ outcome'.inc = "Failure"
                   /\ untouched /\ scratch' = scratch]_vars

\* continue found the scratch ref with another branch checked out and
\* deleted it, its commit being recorded in the grid: the user had left the
\* scratch branch, and the continue that followed went on to the frontier
C32_Witness ==
    /\ outcome.cmd = "continue"
    /\ outcome.inc = "NoManualMergeError"
    /\ outcome.incHead = "branch"
    /\ outcome.incScratch = NoCommit
    /\ outcome.result = "FrontierBlocked"
    /\ "from" \in DOMAIN call
    /\ call.from = "scratch"
    /\ call.scratch # NoCommit


(* ------------------------------- claim C33 ------------------------------ *)

\* C33: incorporate_user_merge raises NotABlockingCommitError exactly when
\* the cell at which the user's merge was recorded is not a current blocker:
\* with the BlockwiseMergeFrontier, not the (1,1) cell of a blocker block of
\* the frontier mapped after recording; with the Full and the Manual
\* frontier, not flagged BLOCKED.  In that case the user's commit has
\* nevertheless replaced the record of the cell, with manual provenance, the
\* state has been saved and the scratch ref deleted (HEAD detached) before
\* the error is reported
C33_NotABlocking ==
    [][LET rd == MergeState_read(refs, blob, len1, len2)
           commit == IF mergeHead # NoCommit THEN UserCommitOf(scratch, mergeHead) ELSE scratch
           cell == outcome'.incAt
           blockers(grid) == iter_blocker_blocks(map_known_frontier(grid, RootBlock(len1, len2)))
           isBlocker(grid) ==
               IF FrontierKind(manual, goal) = "Blockwise"
               THEN \E k \in 1 .. Len(blockers(grid)) :
                       /\ blockers(grid)[k].len1 > 1 /\ blockers(grid)[k].len2 > 1
                       /\ get_original_indexes(blockers(grid)[k], 1, 1) = cell
               ELSE is_blocked(grid[cell])
           recorded(im) ==
               /\ im.ok /\ im.at = cell
               /\ outcome'.inc = "NotABlockingCommitError" <=> ~isBlocker(im.ms.st.grid)
               /\ outcome'.inc = "NotABlockingCommitError" =>
                     /\ outcome'.result = "failed"
                     /\ M'[cell].sha1 = im.ms.st.grid[cell].sha1
                     /\ M'[cell].sha1.tree = commit.tree
                     /\ is_manual(M'[cell])
                     /\ M'[cell].flags \cap NEW_ = {}
                     /\ is_blocked(M'[cell]) <=> is_blocked(rd.grid[cell])
                     /\ \A c \in Cells(len1, len2) \ {cell} : M'[c] = rd.grid[c]
                     /\ \E s \in saves' : <<cell, M'[cell].sha1, TRUE>> \in s.before.known
                     /\ refs'[<<"manual", cell>>] = M'[cell].sha1
                     /\ refs'[<<"auto", cell>>] = NoCommit
                     /\ ReadView(refs', blob', len1, len2) = StateView(len1, len2, M', blob')
                     /\ scratch' = NoCommit
                     /\ head' = "detached"
       IN  (/\ outcome'.cmd = "continue"
            /\ outcome'.inc \in {"incorporated", "NotABlockingCommitError"})
           => recorded(incorporate_manual_merge(MergeState_of(rd, refs, cause), commit))]_vars

\* a merge of the user's own, made at a cell that blocks nothing, was
\* recorded and saved before NotABlockingCommitError was reported, with the
\* goal-directed frontier
C33_Witness ==
    /\ outcome.cmd = "continue"
    /\ outcome.inc = "NotABlockingCommitError"
    /\ ~manual /\ goal = "merge"
    /\ is_manual(M[outcome.incAt])
    /\ refs[<<"manual", outcome.incAt>>] = M[outcome.incAt].sha1
    /\ scratch = NoCommit


(* ------------------------------- claim C34 ------------------------------ *)

\* C34 as stated: walking the path in order, an input commit is reused
\* whenever it has the required parents (the previous chain commit; its tree
\* is the required tree by definition), as long as every earlier entry was
\* reused
C34_ReusedWheneverParentsMatch ==
    (call.fn = "create_commit_chain" /\ call.done) =>
       LET n == Len(call.path)
           RECURSIVE el(_)
           el(k) == IF k = n THEN call.ret ELSE el(k + 1).parents[1]
           prev(k) == IF k = 1 THEN call.base ELSE call.path[k - 1][1]
           matches(k) == call.path[k][1].parents = <<prev(k)>>
       IN  \A k \in 1 .. n :
              (\A j \in 1 .. k : matches(j)) => el(k) = call.path[k][1]

\* C34: create_commit_chain reuses the input commit of a path entry exactly
\* when every earlier entry was reused, the entry is its own metadata commit
\* and its parents are the previous chain commit alone; from the first entry
\* that is not reused on, every entry gets a newly created commit (tree of
\* the entry's commit, the previous chain element as only parent, log
\* message and author of the metadata commit) even if it would match; the
\* commit returned is the last chain element, the base for an empty path
C34_ChainReuse ==
    (call.fn = "create_commit_chain" /\ call.done) =>
       LET n == Len(call.path)
           inputs == {call.path[k][1] : k \in 1 .. n}
           RECURSIVE el(_)
           el(k) == IF k = n THEN call.ret ELSE el(k + 1).parents[1]
           prev(k) == IF k = 1 THEN call.base ELSE call.path[k - 1][1]
           reusable(k) == /\ call.path[k][1] = call.path[k][2]
                          /\ call.path[k][1].parents = <<prev(k)>>
           reused == {k \in 1 .. n : \A j \in 1 .. k : reusable(j)}
       IN  /\ el(0) = call.base
           /\ \A k \in 1 .. n :
                 IF k \in reused
                 THEN el(k) = call.path[k][1]
                 ELSE /\ el(k) \notin inputs
                      /\ el(k).by = "commit-tree"
                      /\ el(k).tree = get_tree(call.path[k][1])
                      /\ el(k).parents = <<el(k - 1)>>
                      /\ el(k).msg = get_log_message(call.path[k][2])
                      /\ el(k).author = get_author_info(call.path[k][2])

\* a chain whose first entry was not reused and whose second entry was made
\* anew although it is its own metadata commit and its parent is the very
\* commit made for the first entry
C34_Witness ==
    /\ call.fn = "create_commit_chain" /\ call.done
    /\ Len(call.path) = 2
    /\ call.path[1][1] # call.path[1][2]
    /\ call.path[2][1] = call.path[2][2]
    /\ call.path[2][1].parents = <<call.ret.parents[1]>>
    /\ call.ret # call.path[2][1]
    /\ call.ret.by = "commit-tree"
    /\ call.ret.tree = call.path[2][1].tree


(* ------------------------------- claim C35 ------------------------------ *)

\* C35: finish checks that the merge is complete, then simplifies, then
\* removes: the refs of the incremental merge and its state blob are deleted
\* only by a finish that found the merge complete and whose simplification
\* wrote the target branch; when finish fails (merge not complete, branch
\* not fast-forwardable, a merge that the goal needs not done, goal not
\* usable), every cell ref is as before and the state blob still exists, so
\* that the stored merge can be read as before
C35_FinishOrder ==
    [][LET rd == MergeState_read(refs, blob, len1, len2)
           deleted == /\ \A r \in DOMAIN refs' : refs'[r] = NoCommit
                      /\ blob' = NoBlob
       IN  (outcome'.cmd = "finish" /\ rd.ok)
           => IF outcome'.result = "simplified"
              THEN /\ is_complete(rd.grid, rd.len1, rd.len2, rd.blob.manual, rd.blob.goal)
                   /\ target' # NoCommit
                   /\ target' = simplify([MergeState_of(rd, refs, cause) EXCEPT !.goal = goal'],
                                         target, outcome'.inc = "--force", simplifies).target
                   /\ (target # NoCommit /\ outcome'.inc # "--force")
                         => is_ancestor(target, target') \/ is_ancestor(target, rd.grid[Apex].sha1)
                   /\ deleted
                   /\ scratch' = NoCommit
              ELSE /\ outcome'.result = "failed"
                   /\ target' = target
                   /\ refs' = refs
                   /\ blob' # NoBlob
                   /\ blob'.blockers = blob.blockers
                   /\ scratch' = scratch
                   /\ MergeState_read(refs', blob', len1, len2).ok
                   /\ \A c \in Cells(len1, len2) :
                         MergeState_read(refs', blob', len1, len2).grid[c] = rd.grid[c]]_vars

\* a finish of a complete merge whose simplification failed: the branch is
\* where it was and the incremental merge is still there
C35_Witness ==
    /\ outcome.cmd = "finish"
    /\ outcome.result = "failed"
    /\ outcome.err \in {"cannot be fast-forwarded", "without discarding history",
                        "is not yet done"}
    /\ LET rd == MergeState_read(refs, blob, len1, len2)
       IN  rd.ok /\ is_complete(rd.grid, rd.len1, rd.len2, rd.blob.manual, rd.blob.goal)
    /\ blob # NoBlob


(* ------------------------------- claim C36 ------------------------------ *)

\* C36: in every reachable state a cell without a commit carries no flag
\* other than BLOCKED; and on every record reached, as it is, after
\* record_blocked(True) and after a record_merge from any source (the records
\* that commands pass through), record_blocked sets or clears BLOCKED
\* without changing the commit or the provenance flags
C36_RecordFlags ==
    \A c \in Cells(len1, len2) :
       LET merged == {record_merge(rec, OrigCommit(0, 0), s) :
                         rec \in {M[c], record_blocked(M[c], TRUE)},
                         s \in {SAVED_AUTO, NEW_AUTO, SAVED_MANUAL, NEW_MANUAL}}
           records == {M[c], record_blocked(M[c], TRUE)} \cup merged
       IN  /\ ~is_known(M[c]) => M[c].flags \subseteq {BLOCKED}
           /\ \A rec \in records :
                 /\ ~is_known(rec) => rec.flags \subseteq {BLOCKED}
                 /\ rec.flags \subseteq AllFlags
                 /\ \A b \in BOOLEAN :
                       /\ record_blocked(rec, b).sha1 = rec.sha1
                       /\ record_blocked(rec, b).flags \ {BLOCKED} = rec.flags \ {BLOCKED}
                       /\ is_blocked(record_blocked(rec, b)) <=> b
                       /\ is_manual(record_blocked(rec, b)) <=> is_manual(rec)

\* BLOCKED was set on a cell without a commit and cleared on it when it held
\* the user's merge: after a continue that incorporated the merge at the
\* cell that the full frontier had flagged, the cell has its commit and its
\* manual provenance, while another cell without a commit is BLOCKED
C36_Witness ==
    /\ outcome.cmd = "continue"
    /\ outcome.inc = "incorporated"
    /\ goal = "full" /\ ~manual
    /\ is_known(M[outcome.incAt])
    /\ is_manual(M[outcome.incAt])
    /\ ~is_blocked(M[outcome.incAt])
    /\ \E c \in Cells(len1, len2) : ~is_known(M[c]) /\ M[c].flags = {BLOCKED}


(* ------------------------------- claim C37 ------------------------------ *)

\* the cells that the simplification for goal g reads
SimplifyReads(g) ==
    LET m == len1 - 1
        n == len2 - 1
        bottom == {<<m, i2>> : i2 \in 1 .. n}
        right == {<<i1, n>> : i1 \in 1 .. m}
    IN  IF g = "full" THEN (1 .. m) \X (1 .. n)
        ELSE IF g \in {"rebase", "revert", "rebase-with-history"} THEN bottom
        ELSE IF g = "drop" THEN right
        ELSE IF g \in {"border", "border-with-history", "border-with-history2"}
        THEN bottom \cup right
        ELSE {<<m, n>>}

\* C37 as stated: in every reachable state in which the stored merge is
\* complete for map_frontier(), every cell that the simplification for the
\* stored goal reads is known, so that it does not fail with 'merge i1-i2 is
\* not yet done'; states after a simplify run with --goal included
C37_CompleteImpliesSimplifiable ==
    LET rd == MergeState_read(refs, blob, len1, len2)
    IN  (rd.ok /\ is_complete(rd.grid, rd.len1, rd.len2, rd.blob.manual, rd.blob.goal))
        => /\ \A c \in SimplifyReads(rd.blob.goal) : is_known(rd.grid[c])
           /\ simplify(MergeState_of(rd, refs, cause), target, TRUE, simplifies).err
                 # "is not yet done"

\* C37, what holds: the same, except for the stored goal full once a
\* simplify or finish has run (one with --goal=full that failed with 'is
\* not yet done' on a merge completed under another goal leaves the goal
\* full stored, and the states that follow it keep the gap)
C37_CompleteImpliesSimplifiableUnlessOverridden ==
    LET rd == MergeState_read(refs, blob, len1, len2)
    IN  (rd.ok /\ is_complete(rd.grid, rd.len1, rd.len2, rd.blob.manual, rd.blob.goal))
        => \/ /\ \A c \in SimplifyReads(rd.blob.goal) : is_known(rd.grid[c])
              /\ simplify(MergeState_of(rd, refs, cause), target, TRUE, simplifies).err
                    # "is not yet done"
           \/ /\ rd.blob.goal = "full"
              /\ simplifies > 0

\* simplify --goal=full failed on a merge completed blockwise and left the
\* goal full stored: the frontier of the stored state is complete and an
\* inner merge is not done
C37_Witness ==
    LET rd == MergeState_read(refs, blob, len1, len2)
    IN  /\ outcome.cmd = "simplify"
        /\ outcome.err = "is not yet done"
        /\ rd.ok
        /\ rd.blob.goal = "full"
        /\ is_complete(rd.grid, rd.len1, rd.len2, rd.blob.manual, rd.blob.goal)
        /\ \E c \in SimplifyReads("full") : ~is_known(rd.grid[c])


(* ---------- auto_complete_frontier, one loop iteration at a step -------- *)

\* cmd_continue up to the call of auto_complete_frontier: read the state and
\* incorporate the user's merge if there is one.  While the loop of
\* auto_complete_frontier runs, call holds the parity of its iterations.
ContinueBegin ==
    LET incorporated(inc) ==
            /\ SetMergeState(inc.ms)
            /\ SetRepo(inc.g)
            /\ IF inc.result \notin {"incorporated", "NoManualMergeError"}
               THEN /\ outcome' = Outcome("continue", inc.result, inc.at, inc.g.head,
                                          inc.g.scratch, "failed", <<0, 0>>, "")
                    /\ call' = <<>>
               ELSE /\ outcome' = Outcome("continue", inc.result, inc.at, inc.g.head,
                                          inc.g.scratch, "running", <<0, 0>>, "")
                    /\ call' = [pc |-> "auto_complete_frontier", parity |-> 0]
        loaded(rd) ==
            /\ rd.ok
            /\ incorporated(incorporate_user_merge(MergeState_of(rd, refs, cause), Repo))
    IN  /\ DOMAIN call = {}
        /\ loaded(MergeState_read(refs, blob, len1, len2))
        /\ UNCHANGED <<refnames, target, simplifies, len1, len2, conflicts, oddTrees, ownMerges, loop>>

\* one iteration of the `while True` of auto_complete_frontier:
\* map_frontier, auto_expand, save; BlockCompleteError ends the command,
\* FrontierBlockedError ends it with request_user_merge
AutoCompleteIterate ==
    LET ms == [st |-> [grid |-> M, why |-> cause, calls |-> outlines, saves |-> saves,
                       err |-> "", touched |-> FALSE],
               len1 |-> len1, len2 |-> len2, goal |-> goal, manual |-> manual,
               tip1 |-> blob.tip1, tip2 |-> blob.tip2, goalopts |-> blob.goalopts,
               branch |-> blob.branch, refs |-> refs, blob |-> blob]
        g1(r) == IF r.st.touched THEN [Repo EXCEPT !.head = "detached"] ELSE Repo
        finally(r, saved) ==
            /\ SetMergeState(saved)
            /\ IF r.result = "return"
               THEN /\ SetRepo(g1(r))
                    /\ call' = [call EXCEPT !.parity = 1 - @]
                    /\ outcome' = outcome
               ELSE /\ call' = <<>>
                    /\ IF r.result = "FrontierBlocked"
                       THEN LET requested(req) ==
                                    /\ SetRepo(req.g)
                                    /\ outcome' = [outcome EXCEPT
                                                      !.result = "FrontierBlocked",
                                                      !.at = r.at,
                                                      !.err = IF req.ok THEN ""
                                                              ELSE "RuntimeError"]
                            IN  requested(request_user_merge(saved, r.at[1], r.at[2], g1(r)))
                       ELSE /\ SetRepo(g1(r))
                            /\ outcome' = [outcome EXCEPT
                                              !.result = IF r.result = "BlockComplete"
                                                         THEN "complete" ELSE r.result,
                                              !.at = r.at,
                                              !.err = saved.st.err]
        expanded(r) == finally(r, MergeState_save([ms EXCEPT !.st = r.st]))
    IN  /\ "parity" \in DOMAIN call
        /\ expanded(auto_expand(ms))
        /\ UNCHANGED <<refnames, target, simplifies, len1, len2, conflicts, oddTrees, ownMerges, loop>>

SpecComplete ==
    Init /\ [][ContinueBegin \/ AutoCompleteIterate \/ UserResolve \/ UserCommit \/ UserOwnMerge]_vars

(* ------------------------------- claim C38 ------------------------------ *)

\* C38: auto_complete_frontier terminates.  Every iteration whose
\* auto_expand returned normally has recorded a merge for at least one cell
\* that was unknown before and has forgotten none; the loop ends by
\* BlockCompleteError (the command completes) or by FrontierBlockedError and
\* by no other exception; and a loop that keeps running (every iteration
\* changes the parity kept in call) comes to its end
C38_AutoCompleteTerminates ==
    /\ [][(DOMAIN call # {} /\ DOMAIN call' # {})
          => /\ \A c \in Cells(len1, len2) : is_known(M[c]) => is_known(M'[c])
             /\ \E c \in Cells(len1, len2) : ~is_known(M[c]) /\ is_known(M'[c])]_vars
    /\ [][(DOMAIN call # {} /\ DOMAIN call' = {})
          => outcome'.result \in {"complete", "FrontierBlocked"} /\ outcome'.err = ""]_vars
    /\ ([]<><<TRUE>>_call) => [](DOMAIN call # {} => <>(DOMAIN call = {}))

\* the loop ended with FrontierBlockedError after an iteration in which
\* auto_expand had returned: the blocked cell is flagged and merges beyond
\* the first outline are recorded
C38_Witness ==
    /\ DOMAIN call = {}
    /\ outcome.cmd = "continue"
    /\ outcome.result = "FrontierBlocked"
    /\ goal = "merge" /\ ~manual
    /\ is_blocked(M[outcome.at])
    /\ \E s \in saves, t \in saves :
          /\ s.before.known # t.before.known
          /\ s.before.known \subseteq t.before.known
          /\ s.before.blocked = {}


(* ------- incorporate_user_merge, one write to the repository at a step ------ *)

\* cmd_continue with the scratch branch checked out, up to the return of
\* incorporate_manual_merge: commit_user_merge, require_clean_work_tree and
\* the record of the commit in the MergeState in memory.  call holds where
\* incorporate_user_merge stands, the commit of the user and its cell.
IncorporateBegin ==
    LET g1 == IF mergeHead # NoCommit
              THEN [Repo EXCEPT !.scratch = UserCommitOf(scratch, mergeHead),
                                !.mergeHead = NoCommit, !.worktree = "clean"]
              ELSE Repo
        recorded(im) ==
            /\ im.ok
            /\ M' = im.ms.st.grid
            /\ goal' = im.ms.goal
            /\ manual' = im.ms.manual
            /\ cause' = im.ms.st.why
            /\ outlines' = im.ms.st.calls
            /\ saves' = im.ms.st.saves
            /\ SetRepo(g1)
            /\ call' = [pc |-> "detach", commit |-> g1.scratch, at |-> im.at,
                        ok |-> TRUE, k |-> 1]
            /\ outcome' = Outcome("continue", "running", im.at, g1.head, g1.scratch,
                                  "running", <<0, 0>>, "")
        loaded(rd) ==
            /\ rd.ok
            /\ recorded(incorporate_manual_merge(MergeState_of(rd, refs, cause), g1.scratch))
    IN  /\ DOMAIN call = {}
        /\ scratch # NoCommit
        /\ head = "scratch"
        /\ ~(mergeHead # NoCommit /\ worktree = "conflicted")
        /\ g1.worktree = "clean"
        /\ loaded(MergeState_read(refs, blob, len1, len2))
        /\ UNCHANGED <<refnames, target, simplifies, len1, len2, conflicts, oddTrees,
                       ownMerges, loop, refs, blob>>

\* the rest of incorporate_user_merge, a step at a time: detach, delete_ref
\* of the scratch ref, map_frontier().incorporate_merge, and the save of
\* the finally clause, of which every set_ref, every clear_ref and
\* write_imerge_state_dict is a step.  After a NotABlockingCommitError the
\* command ends; otherwise it goes on with auto_complete_frontier.
IncorporateStep ==
    LET ms == [st |-> [grid |-> M, why |-> cause, calls |-> outlines, saves |-> saves,
                       err |-> "", touched |-> FALSE],
               len1 |-> len1, len2 |-> len2, goal |-> goal, manual |-> manual,
               tip1 |-> blob.tip1, tip2 |-> blob.tip2, goalopts |-> blob.goalopts,
               branch |-> blob.branch, refs |-> refs, blob |-> blob]
        mf == incorporate_merge(ms, call.at[1], call.at[2])
        ops == save_cells(M, refs, RowMajor(len1, len2), 1).ops
        op == ops[call.k]
        inc == IF call.ok THEN "incorporated" ELSE "NotABlockingCommitError"
    IN  /\ "commit" \in DOMAIN call
        /\ call.pc # "crashed"
        /\ UNCHANGED <<refnames, target, simplifies, len1, len2, conflicts, oddTrees,
                       ownMerges, loop, mergeHead, worktree>>
        /\ CASE call.pc = "detach" ->
                   /\ head' = "detached"
                   /\ call' = [call EXCEPT !.pc = "delete_ref"]
                   /\ UNCHANGED <<scratch, refs, blob, M, goal, manual, cause, outlines,
                                  saves, outcome>>
             [] call.pc = "delete_ref" ->
                   /\ scratch' = NoCommit
                   /\ call' = [call EXCEPT !.pc = "incorporate_merge"]
                   /\ UNCHANGED <<head, refs, blob, M, goal, manual, cause, outlines,
                                  saves, outcome>>
             [] call.pc = "incorporate_merge" ->
                   /\ M' = mf.ms.st.grid
                   /\ call' = [call EXCEPT !.pc = "save", !.ok = mf.ok]
                   /\ UNCHANGED <<head, scratch, refs, blob, goal, manual, cause,
                                  outlines, saves, outcome>>
             [] call.pc = "save" /\ call.k <= Len(ops) ->
                   /\ refs' = [refs EXCEPT ![<<op[2], op[3]>>] =
                                  IF op[1] = "update" THEN M[op[3]].sha1 ELSE NoCommit]
                   /\ call' = [call EXCEPT !.k = @ + 1]
                   /\ UNCHANGED <<head, scratch, blob, M, goal, manual, cause, outlines,
                                  saves, outcome>>
             [] call.pc = "save" /\ call.k > Len(ops) ->
                   /\ SetMergeState(MergeState_save(ms))
                   /\ call' = IF call.ok THEN [pc |-> "auto_complete_frontier", parity |-> 0]
                              ELSE <<>>
                   /\ outcome' = Outcome("continue", inc, call.at, head, scratch,
                                         IF call.ok THEN "running" ELSE "failed",
                                         <<0, 0>>, "")
                   /\ UNCHANGED <<head, scratch>>

\* the process is killed in the middle of incorporate_user_merge: the
\* repository stays as the steps done so far have left it (call.after is
\* the step that would have been the next one)
Crash ==
    /\ "commit" \in DOMAIN call
    /\ call.pc # "crashed"
    /\ call' = [pc |-> "crashed", after |-> call.pc, commit |-> call.commit,
                at |-> call.at, ok |-> call.ok, k |-> call.k]
    /\ outcome' = Outcome("crash", call.pc, call.at, head, call.commit, "failed",
                          <<0, 0>>, "")
    /\ UNCHANGED <<refnames, target, simplifies, len1, len2, conflicts, oddTrees, refs,
                   blob, scratch, head, mergeHead, worktree, M, goal, manual, cause,
                   outlines, saves, ownMerges, loop>>

SpecDurable ==
    Init /\ [][ContinueBegin \/ AutoCompleteIterate \/ UserResolve \/ UserCommit
               \/ UserOwnMerge \/ IncorporateBegin \/ IncorporateStep \/ Crash]_vars

(* ------------------------------- claim C39 ------------------------------ *)

\* C39 as stated: at every step of incorporate_user_merge, and so at a
\* crash after any step, the merge of the user is referenced by the scratch
\* ref or by the manual ref of its cell (which holds the commit recorded
\* for it: the commit of the user, or its copy with the parents in the
\* conventional order)
C39_AlwaysReferenced ==
    "commit" \in DOMAIN call
        => \/ scratch = call.commit
           \/ /\ refs[<<"manual", call.at>>] # NoCommit
              /\ refs[<<"manual", call.at>>] = M[call.at].sha1

\* C39, what holds: the scratch ref holds the commit of the user until
\* delete_ref has run, and the manual ref of its cell holds the commit
\* recorded for it, a merge of the two neighbours of the cell, once the
\* set_ref and clear_ref calls of the save are done; in between neither
\* ref holds it
C39_ReferencedOutsideTheWindow ==
    /\ "commit" \in DOMAIN call
          => /\ (call.pc \in {"detach", "delete_ref"}
                   \/ (call.pc = "crashed" /\ call.after \in {"detach", "delete_ref"}))
                   => scratch = call.commit
             /\ ((call.pc = "save" \/ (call.pc = "crashed" /\ call.after = "save"))
                   /\ call.k > Len(save_cells(M, refs, RowMajor(len1, len2), 1).ops))
                   => refs[<<"manual", call.at>>] = M[call.at].sha1
             /\ M[call.at].sha1 # NoCommit
             /\ get_commit_parents(M[call.at].sha1)
                   = <<M[<<call.at[1], call.at[2] - 1>>].sha1,
                       M[<<call.at[1] - 1, call.at[2]>>].sha1>>
    /\ (outcome.cmd = "continue" /\ outcome.inc \in {"incorporated", "NotABlockingCommitError"}
          /\ outcome.result \in {"running", "failed"})
          => refs[<<"manual", outcome.incAt>>] = M[outcome.incAt].sha1

\* the process was killed between delete_ref and the set_ref of the save:
\* the scratch ref is gone, the cell of the merge has no manual ref, and
\* the state blob still lists it as a blocker
C39_Witness ==
    /\ "commit" \in DOMAIN call
    /\ call.pc = "crashed"
    /\ call.after \in {"incorporate_merge", "save"}
    /\ call.commit # NoCommit
    /\ scratch = NoCommit
    /\ head = "detached"
    /\ refs[<<"manual", call.at>>] = NoCommit
    /\ call.at \in blob.blockers


(* ------------------------------- claim C40 ------------------------------ *)

\* the refs and the state blob after the first j writes of the save s
InterruptedSave(s, j) ==
    LET RECURSIVE applied(_)
        applied(k) ==
            IF k = 0
            THEN [refs |-> [q \in DOMAIN s.refs |->
                               IF \E x \in s.refs0 : x[1] = q
                               THEN (CHOOSE x \in s.refs0 : x[1] = q)[2]
                               ELSE NoCommit],
                  blob |-> s.blob0]
            ELSE LET prev == applied(k - 1)
                     op == s.writes[k]
                 IN  IF op[1] = "write"
                     THEN [prev EXCEPT !.blob =
                              [blockers |-> s.before.blocked,
                               tip1 |-> s.before.tip1, tip2 |-> s.before.tip2,
                               goal |-> s.before.goal, goalopts |-> s.before.goalopts,
                               manual |-> s.before.manual, branch |-> s.before.branch]]
                     ELSE [prev EXCEPT !.refs[<<op[2], op[3]>>] =
                              IF op[1] = "update" THEN s.refs[<<op[2], op[3]>>]
                              ELSE NoCommit]
    IN  applied(j)

\* C40: a save of an initialized incremental merge that is interrupted
\* after any number of its writes (set_ref, clear_ref, and last the state
\* blob) leaves refs that MergeState.read reads without a Failure, and
\* every cell that read reports as known holds the commit the cell had
\* before the save or the commit being saved
C40_InterruptedSaveReadable ==
    \A s \in saves :
        s.blob0 # NoBlob
            => \A j \in 0 .. Len(s.writes) :
                   LET cut == InterruptedSave(s, j)
                       rd == MergeState_read(cut.refs, cut.blob, len1, len2)
                       old == MergeState_read(InterruptedSave(s, 0).refs, s.blob0, len1, len2)
                   IN  /\ rd.ok
                       /\ rd.failures = {}
                       /\ old.ok
                       /\ rd.len1 = len1 /\ rd.len2 = len2
                       /\ \A c \in Cells(len1, len2) :
                             is_known(rd.grid[c])
                                 => \/ is_known(old.grid[c]) /\ rd.grid[c].sha1 = old.grid[c].sha1
                                    \/ \E k \in s.before.known :
                                          k[1] = c /\ k[2] = rd.grid[c].sha1

\* a save that replaced the automatic merge of a cell by a merge of the user
\* and recorded other merges too: cut after the clear_ref, read finds the
\* cell unknown; cut before the state blob, read finds the new merges and
\* the blockers of before
C40_Witness ==
    \E s \in saves :
        /\ s.blob0 # NoBlob
        /\ Len(s.writes) >= 3
        /\ \E j \in 1 .. Len(s.writes) - 2 :
              /\ s.writes[j][1] = "delete"
              /\ s.writes[j + 1][1] = "update"
              /\ s.writes[j + 1][3] = s.writes[j][3]
              /\ ~is_known(MergeState_read(InterruptedSave(s, j).refs,
                                           InterruptedSave(s, j).blob, len1, len2)
                              .grid[s.writes[j][3]])
=============================================================================
